---- MODULE Spec2Model ----
(***************************************************************************)
(* A model of the Breakpad crash-report toolkit core:                      *)
(*   - MinidumpProcessor::Process      (src/processor/minidump_processor.cc)*)
(*   - MinidumpProcessor::GetCrashReason                                   *)
(*   - Module::AddFunction / AddExtern / Write, as pinned down by          *)
(*     src/common/module_unittest.cc                                       *)
(* Each subsystem has its own variables and its own specification; the     *)
(* variables of the other subsystems stay at their initial value.          *)
(***************************************************************************)
EXTENDS Integers, Sequences, FiniteSets, TLC

\* ------------------------------------------------------------------ bounds

\* Longest thread list of a modelled minidump.
MaxThreads == 2

\* ----------------------------------------------------------------- helpers

Min(a, b) == IF a < b THEN a ELSE b
Max(a, b) == IF a > b THEN a ELSE b

\* All sequences over S of length 0..n.
SeqUpTo(S, n) == UNION {[1..k -> S] : k \in 0..n}

\* ------------------------------------------------- GetCrashReason: enumerators
\* The enumerators of MDOSPlatform, MDCPUArchitecture and of the per-OS exception
\* code and flag enumerations that GetCrashReason switches on.  TLC's integers
\* are 32 bits wide: a uint32_t is held as the int32_t with the same 32 bits, so
\* 0xc0000005 reads -1073741819.
MD_CPU_ARCHITECTURE_X86 == 0
MD_CPU_ARCHITECTURE_MIPS == 1
MD_CPU_ARCHITECTURE_PPC == 3
MD_CPU_ARCHITECTURE_SHX == 4
MD_CPU_ARCHITECTURE_ARM == 5
MD_CPU_ARCHITECTURE_X86_WIN64 == 10
MD_OS_FUCHSIA == 33286
MD_EXCEPTION_CODE_FUCHSIA_GENERAL == 8
MD_EXCEPTION_CODE_FUCHSIA_FATAL_PAGE_FAULT == 264
MD_EXCEPTION_CODE_FUCHSIA_UNDEFINED_INSTRUCTION == 520
MD_EXCEPTION_CODE_FUCHSIA_SW_BREAKPOINT == 776
MD_EXCEPTION_CODE_FUCHSIA_HW_BREAKPOINT == 1032
MD_EXCEPTION_CODE_FUCHSIA_UNALIGNED_ACCESS == 1288
MD_EXCEPTION_CODE_FUCHSIA_THREAD_STARTING == 32776
MD_EXCEPTION_CODE_FUCHSIA_THREAD_EXITING == 33032
MD_EXCEPTION_CODE_FUCHSIA_POLICY_ERROR == 33288
MD_EXCEPTION_CODE_FUCHSIA_PROCESS_STARTING == 33544
MD_OS_MAC_OS_X == 33025
MD_OS_IOS == 33026
MD_EXCEPTION_MAC_BAD_ACCESS == 1
MD_EXCEPTION_CODE_MAC_INVALID_ADDRESS == 1
MD_EXCEPTION_CODE_MAC_PROTECTION_FAILURE == 2
MD_EXCEPTION_CODE_MAC_NO_ACCESS == 8
MD_EXCEPTION_CODE_MAC_MEMORY_FAILURE == 9
MD_EXCEPTION_CODE_MAC_MEMORY_ERROR == 10
MD_EXCEPTION_CODE_MAC_CODESIGN_ERROR == 50
MD_CPU_ARCHITECTURE_ARM64_OLD == 32771
MD_EXCEPTION_CODE_MAC_ARM_DA_ALIGN == 257
MD_EXCEPTION_CODE_MAC_ARM_DA_DEBUG == 258
MD_EXCEPTION_CODE_MAC_PPC_VM_PROT_READ == 257
MD_EXCEPTION_CODE_MAC_PPC_BADSPACE == 258
MD_EXCEPTION_CODE_MAC_PPC_UNALIGNED == 259
MD_CPU_ARCHITECTURE_AMD64 == 9
MD_EXCEPTION_CODE_MAC_X86_GENERAL_PROTECTION_FAULT == 13
MD_EXCEPTION_MAC_BAD_INSTRUCTION == 2
MD_EXCEPTION_CODE_MAC_ARM_UNDEFINED == 1
MD_EXCEPTION_CODE_MAC_PPC_INVALID_SYSCALL == 1
MD_EXCEPTION_CODE_MAC_PPC_UNIMPLEMENTED_INSTRUCTION == 2
MD_EXCEPTION_CODE_MAC_PPC_PRIVILEGED_INSTRUCTION == 3
MD_EXCEPTION_CODE_MAC_PPC_PRIVILEGED_REGISTER == 4
MD_EXCEPTION_CODE_MAC_PPC_TRACE == 5
MD_EXCEPTION_CODE_MAC_PPC_PERFORMANCE_MONITOR == 6
MD_EXCEPTION_CODE_MAC_X86_INVALID_OPERATION == 1
MD_EXCEPTION_CODE_MAC_X86_INVALID_TASK_STATE_SEGMENT == 10
MD_EXCEPTION_CODE_MAC_X86_SEGMENT_NOT_PRESENT == 11
MD_EXCEPTION_CODE_MAC_X86_STACK_FAULT == 12
MD_EXCEPTION_CODE_MAC_X86_ALIGNMENT_FAULT == 17
MD_EXCEPTION_MAC_ARITHMETIC == 3
MD_EXCEPTION_CODE_MAC_PPC_OVERFLOW == 1
MD_EXCEPTION_CODE_MAC_PPC_ZERO_DIVIDE == 2
MD_EXCEPTION_CODE_MAC_PPC_FLOAT_INEXACT == 3
MD_EXCEPTION_CODE_MAC_PPC_FLOAT_ZERO_DIVIDE == 4
MD_EXCEPTION_CODE_MAC_PPC_FLOAT_UNDERFLOW == 5
MD_EXCEPTION_CODE_MAC_PPC_FLOAT_OVERFLOW == 6
MD_EXCEPTION_CODE_MAC_PPC_FLOAT_NOT_A_NUMBER == 7
MD_EXCEPTION_CODE_MAC_PPC_NO_EMULATION == 8
MD_EXCEPTION_CODE_MAC_PPC_ALTIVEC_ASSIST == 9
MD_EXCEPTION_CODE_MAC_X86_DIV == 1
MD_EXCEPTION_CODE_MAC_X86_INTO == 2
MD_EXCEPTION_CODE_MAC_X86_NOEXT == 3
MD_EXCEPTION_CODE_MAC_X86_EXTOVR == 4
MD_EXCEPTION_CODE_MAC_X86_EXTERR == 5
MD_EXCEPTION_CODE_MAC_X86_EMERR == 6
MD_EXCEPTION_CODE_MAC_X86_BOUND == 7
MD_EXCEPTION_CODE_MAC_X86_SSEEXTERR == 8
MD_EXCEPTION_MAC_EMULATION == 4
MD_EXCEPTION_MAC_SOFTWARE == 5
MD_EXCEPTION_CODE_MAC_ABORT == 65538
MD_EXCEPTION_CODE_MAC_NS_EXCEPTION == -559038242
MD_EXCEPTION_CODE_MAC_PPC_TRAP == 1
MD_EXCEPTION_CODE_MAC_PPC_MIGRATE == 65792
MD_EXCEPTION_MAC_BREAKPOINT == 6
MD_EXCEPTION_CODE_MAC_ARM_BREAKPOINT == 1
MD_EXCEPTION_CODE_MAC_PPC_BREAKPOINT == 1
MD_EXCEPTION_CODE_MAC_X86_SGL == 1
MD_EXCEPTION_CODE_MAC_X86_BPT == 2
MD_EXCEPTION_MAC_SYSCALL == 7
MD_EXCEPTION_MAC_MACH_SYSCALL == 8
MD_EXCEPTION_MAC_RPC_ALERT == 9
MD_EXCEPTION_MAC_RESOURCE == 11
MD_EXCEPTION_MAC_GUARD == 12
MD_EXCEPTION_MAC_SIMULATED == 1129345912
MD_NS_EXCEPTION_SIMULATED == 1129345913
MD_OS_WIN32_NT == 2
MD_OS_WIN32_WINDOWS == 1
MD_EXCEPTION_CODE_WIN_CONTROL_C == 1073807365
MD_EXCEPTION_CODE_WIN_GUARD_PAGE_VIOLATION == -2147483647
MD_EXCEPTION_CODE_WIN_DATATYPE_MISALIGNMENT == -2147483646
MD_EXCEPTION_CODE_WIN_BREAKPOINT == -2147483645
MD_EXCEPTION_CODE_WIN_SINGLE_STEP == -2147483644
MD_EXCEPTION_CODE_WIN_ACCESS_VIOLATION == -1073741819
MD_ACCESS_VIOLATION_WIN_READ == 0
MD_ACCESS_VIOLATION_WIN_WRITE == 1
MD_ACCESS_VIOLATION_WIN_EXEC == 8
MD_EXCEPTION_CODE_WIN_IN_PAGE_ERROR == -1073741818
MD_IN_PAGE_ERROR_WIN_READ == 0
MD_IN_PAGE_ERROR_WIN_WRITE == 1
MD_IN_PAGE_ERROR_WIN_EXEC == 8
MD_EXCEPTION_CODE_WIN_INVALID_HANDLE == -1073741816
MD_EXCEPTION_CODE_WIN_ILLEGAL_INSTRUCTION == -1073741795
MD_EXCEPTION_CODE_WIN_NONCONTINUABLE_EXCEPTION == -1073741787
MD_EXCEPTION_CODE_WIN_INVALID_DISPOSITION == -1073741786
MD_EXCEPTION_CODE_WIN_ARRAY_BOUNDS_EXCEEDED == -1073741684
MD_EXCEPTION_CODE_WIN_FLOAT_DENORMAL_OPERAND == -1073741683
MD_EXCEPTION_CODE_WIN_FLOAT_DIVIDE_BY_ZERO == -1073741682
MD_EXCEPTION_CODE_WIN_FLOAT_INEXACT_RESULT == -1073741681
MD_EXCEPTION_CODE_WIN_FLOAT_INVALID_OPERATION == -1073741680
MD_EXCEPTION_CODE_WIN_FLOAT_OVERFLOW == -1073741679
MD_EXCEPTION_CODE_WIN_FLOAT_STACK_CHECK == -1073741678
MD_EXCEPTION_CODE_WIN_FLOAT_UNDERFLOW == -1073741677
MD_EXCEPTION_CODE_WIN_INTEGER_DIVIDE_BY_ZERO == -1073741676
MD_EXCEPTION_CODE_WIN_INTEGER_OVERFLOW == -1073741675
MD_EXCEPTION_CODE_WIN_PRIVILEGED_INSTRUCTION == -1073741674
MD_EXCEPTION_CODE_WIN_STACK_OVERFLOW == -1073741571
MD_EXCEPTION_CODE_WIN_BAD_FUNCTION_TABLE == -1073741569
MD_EXCEPTION_CODE_WIN_POSSIBLE_DEADLOCK == -1073741420
MD_EXCEPTION_CODE_WIN_STACK_BUFFER_OVERRUN == -1073740791
MD_FAST_FAIL_VTGUARD_CHECK_FAILURE == 1
MD_FAST_FAIL_STACK_COOKIE_CHECK_FAILURE == 2
MD_FAST_FAIL_CORRUPT_LIST_ENTRY == 3
MD_FAST_FAIL_INCORRECT_STACK == 4
MD_FAST_FAIL_INVALID_ARG == 5
MD_FAST_FAIL_GS_COOKIE_INIT == 6
MD_FAST_FAIL_FATAL_APP_EXIT == 7
MD_FAST_FAIL_RANGE_CHECK_FAILURE == 8
MD_FAST_FAIL_UNSAFE_REGISTRY_ACCESS == 9
MD_FAST_FAIL_GUARD_ICALL_CHECK_FAILURE == 10
MD_FAST_FAIL_GUARD_WRITE_CHECK_FAILURE == 11
MD_FAST_FAIL_INVALID_FIBER_SWITCH == 12
MD_FAST_FAIL_INVALID_SET_OF_CONTEXT == 13
MD_FAST_FAIL_INVALID_REFERENCE_COUNT == 14
MD_FAST_FAIL_INVALID_JUMP_BUFFER == 18
MD_FAST_FAIL_MRDATA_MODIFIED == 19
MD_FAST_FAIL_CERTIFICATION_FAILURE == 20
MD_FAST_FAIL_INVALID_EXCEPTION_CHAIN == 21
MD_FAST_FAIL_CRYPTO_LIBRARY == 22
MD_FAST_FAIL_INVALID_CALL_IN_DLL_CALLOUT == 23
MD_FAST_FAIL_INVALID_IMAGE_BASE == 24
MD_FAST_FAIL_DLOAD_PROTECTION_FAILURE == 25
MD_FAST_FAIL_UNSAFE_EXTENSION_CALL == 26
MD_FAST_FAIL_DEPRECATED_SERVICE_INVOKED == 27
MD_FAST_FAIL_INVALID_BUFFER_ACCESS == 28
MD_FAST_FAIL_INVALID_BALANCED_TREE == 29
MD_FAST_FAIL_INVALID_NEXT_THREAD == 30
MD_FAST_FAIL_GUARD_ICALL_CHECK_SUPPRESSED == 31
MD_FAST_FAIL_APCS_DISABLED == 32
MD_FAST_FAIL_INVALID_IDLE_STATE == 33
MD_FAST_FAIL_MRDATA_PROTECTION_FAILURE == 34
MD_FAST_FAIL_UNEXPECTED_HEAP_EXCEPTION == 35
MD_FAST_FAIL_INVALID_LOCK_STATE == 36
MD_FAST_FAIL_GUARD_JUMPTABLE == 37
MD_FAST_FAIL_INVALID_LONGJUMP_TARGET == 38
MD_FAST_FAIL_INVALID_DISPATCH_CONTEXT == 39
MD_FAST_FAIL_INVALID_THREAD == 40
MD_FAST_FAIL_INVALID_SYSCALL_NUMBER == 41
MD_FAST_FAIL_INVALID_FILE_OPERATION == 42
MD_FAST_FAIL_LPAC_ACCESS_DENIED == 43
MD_FAST_FAIL_GUARD_SS_FAILURE == 44
MD_FAST_FAIL_LOADER_CONTINUITY_FAILURE == 45
MD_FAST_FAIL_GUARD_EXPORT_SUPPRESSION_FAILURE == 46
MD_FAST_FAIL_INVALID_CONTROL_STACK == 47
MD_FAST_FAIL_SET_CONTEXT_DENIED == 48
MD_FAST_FAIL_INVALID_IAT == 49
MD_FAST_FAIL_HEAP_METADATA_CORRUPTION == 50
MD_FAST_FAIL_PAYLOAD_RESTRICTION_VIOLATION == 51
MD_FAST_FAIL_LOW_LABEL_ACCESS_DENIED == 52
MD_FAST_FAIL_ENCLAVE_CALL_FAILURE == 53
MD_FAST_FAIL_UNHANDLED_LSS_EXCEPTON == 54
MD_FAST_FAIL_ADMINLESS_ACCESS_DENIED == 55
MD_FAST_FAIL_UNEXPECTED_CALL == 56
MD_FAST_FAIL_CONTROL_INVALID_RETURN_ADDRESS == 57
MD_FAST_FAIL_UNEXPECTED_HOST_BEHAVIOR == 58
MD_FAST_FAIL_FLAGS_CORRUPTION == 59
MD_FAST_FAIL_VEH_CORRUPTION == 60
MD_FAST_FAIL_ETW_CORRUPTION == 61
MD_FAST_FAIL_RIO_ABORT == 62
MD_FAST_FAIL_INVALID_PFN == 63
MD_FAST_FAIL_GUARD_ICALL_CHECK_FAILURE_XFG == 64
MD_FAST_FAIL_CAST_GUARD == 65
MD_FAST_FAIL_HOST_VISIBILITY_CHANGE == 66
MD_FAST_FAIL_KERNEL_CET_SHADOW_STACK_ASSIST == 67
MD_FAST_FAIL_PATCH_CALLBACK_FAILED == 68
MD_FAST_FAIL_NTDLL_PATCH_FAILED == 69
MD_FAST_FAIL_INVALID_FLS_DATA == 70
MD_EXCEPTION_CODE_WIN_HEAP_CORRUPTION == -1073740940
MD_EXCEPTION_OUT_OF_MEMORY == -536870904
MD_EXCEPTION_CODE_WIN_UNHANDLED_CPP_EXCEPTION == -529697949
MD_EXCEPTION_CODE_WIN_SIMULATED == 85436397
MD_OS_ANDROID == 33283
MD_OS_LINUX == 33281
MD_EXCEPTION_CODE_LIN_SIGHUP == 1
MD_EXCEPTION_CODE_LIN_SIGINT == 2
MD_EXCEPTION_CODE_LIN_SIGQUIT == 3
MD_EXCEPTION_CODE_LIN_SIGILL == 4
MD_EXCEPTION_FLAG_LIN_ILL_ILLOPC == 1
MD_EXCEPTION_FLAG_LIN_ILL_ILLOPN == 2
MD_EXCEPTION_FLAG_LIN_ILL_ILLADR == 3
MD_EXCEPTION_FLAG_LIN_ILL_ILLTRP == 4
MD_EXCEPTION_FLAG_LIN_ILL_PRVOPC == 5
MD_EXCEPTION_FLAG_LIN_ILL_PRVREG == 6
MD_EXCEPTION_FLAG_LIN_ILL_COPROC == 7
MD_EXCEPTION_FLAG_LIN_ILL_BADSTK == 8
MD_EXCEPTION_CODE_LIN_SIGTRAP == 5
MD_EXCEPTION_CODE_LIN_SIGABRT == 6
MD_EXCEPTION_CODE_LIN_SIGBUS == 7
MD_EXCEPTION_FLAG_LIN_BUS_ADRALN == 1
MD_EXCEPTION_FLAG_LIN_BUS_ADRERR == 2
MD_EXCEPTION_FLAG_LIN_BUS_OBJERR == 3
MD_EXCEPTION_FLAG_LIN_BUS_MCEERR_AR == 4
MD_EXCEPTION_FLAG_LIN_BUS_MCEERR_AO == 5
MD_EXCEPTION_CODE_LIN_SIGFPE == 8
MD_EXCEPTION_FLAG_LIN_FPE_INTDIV == 1
MD_EXCEPTION_FLAG_LIN_FPE_INTOVF == 2
MD_EXCEPTION_FLAG_LIN_FPE_FLTDIV == 3
MD_EXCEPTION_FLAG_LIN_FPE_FLTOVF == 4
MD_EXCEPTION_FLAG_LIN_FPE_FLTUND == 5
MD_EXCEPTION_FLAG_LIN_FPE_FLTRES == 6
MD_EXCEPTION_FLAG_LIN_FPE_FLTINV == 7
MD_EXCEPTION_FLAG_LIN_FPE_FLTSUB == 8
MD_EXCEPTION_CODE_LIN_SIGKILL == 9
MD_EXCEPTION_CODE_LIN_SIGUSR1 == 10
MD_EXCEPTION_CODE_LIN_SIGSEGV == 11
MD_EXCEPTION_FLAG_LIN_SEGV_MAPERR == 1
MD_EXCEPTION_FLAG_LIN_SEGV_ACCERR == 2
MD_EXCEPTION_FLAG_LIN_SEGV_BNDERR == 3
MD_EXCEPTION_FLAG_LIN_SEGV_PKUERR == 4
MD_EXCEPTION_FLAG_LIN_SEGV_ACCADI == 5
MD_EXCEPTION_FLAG_LIN_SEGV_ADIDERR == 6
MD_EXCEPTION_FLAG_LIN_SEGV_ADIPERR == 7
MD_EXCEPTION_FLAG_LIN_SEGV_MTEAERR == 8
MD_EXCEPTION_FLAG_LIN_SEGV_MTESERR == 9
MD_EXCEPTION_CODE_LIN_SIGUSR2 == 12
MD_EXCEPTION_CODE_LIN_SIGPIPE == 13
MD_EXCEPTION_CODE_LIN_SIGALRM == 14
MD_EXCEPTION_CODE_LIN_SIGTERM == 15
MD_EXCEPTION_CODE_LIN_SIGSTKFLT == 16
MD_EXCEPTION_CODE_LIN_SIGCHLD == 17
MD_EXCEPTION_CODE_LIN_SIGCONT == 18
MD_EXCEPTION_CODE_LIN_SIGSTOP == 19
MD_EXCEPTION_CODE_LIN_SIGTSTP == 20
MD_EXCEPTION_CODE_LIN_SIGTTIN == 21
MD_EXCEPTION_CODE_LIN_SIGTTOU == 22
MD_EXCEPTION_CODE_LIN_SIGURG == 23
MD_EXCEPTION_CODE_LIN_SIGXCPU == 24
MD_EXCEPTION_CODE_LIN_SIGXFSZ == 25
MD_EXCEPTION_CODE_LIN_SIGVTALRM == 26
MD_EXCEPTION_CODE_LIN_SIGPROF == 27
MD_EXCEPTION_CODE_LIN_SIGWINCH == 28
MD_EXCEPTION_CODE_LIN_SIGIO == 29
MD_EXCEPTION_CODE_LIN_SIGPWR == 30
MD_EXCEPTION_CODE_LIN_SIGSYS == 31
MD_EXCEPTION_CODE_LIN_DUMP_REQUESTED == -1
MD_OS_SOLARIS == 33282
MD_EXCEPTION_CODE_SOL_SIGHUP == 1
MD_EXCEPTION_CODE_SOL_SIGINT == 2
MD_EXCEPTION_CODE_SOL_SIGQUIT == 3
MD_EXCEPTION_CODE_SOL_SIGILL == 4
MD_EXCEPTION_CODE_SOL_SIGTRAP == 5
MD_EXCEPTION_CODE_SOL_SIGIOT == 6
MD_EXCEPTION_CODE_SOL_SIGEMT == 7
MD_EXCEPTION_CODE_SOL_SIGFPE == 8
MD_EXCEPTION_CODE_SOL_SIGKILL == 9
MD_EXCEPTION_CODE_SOL_SIGBUS == 10
MD_EXCEPTION_CODE_SOL_SIGSEGV == 11
MD_EXCEPTION_CODE_SOL_SIGSYS == 12
MD_EXCEPTION_CODE_SOL_SIGPIPE == 13
MD_EXCEPTION_CODE_SOL_SIGALRM == 14
MD_EXCEPTION_CODE_SOL_SIGTERM == 15
MD_EXCEPTION_CODE_SOL_SIGUSR1 == 16
MD_EXCEPTION_CODE_SOL_SIGUSR2 == 17
MD_EXCEPTION_CODE_SOL_SIGCLD == 18
MD_EXCEPTION_CODE_SOL_SIGPWR == 19
MD_EXCEPTION_CODE_SOL_SIGWINCH == 20
MD_EXCEPTION_CODE_SOL_SIGURG == 21
MD_EXCEPTION_CODE_SOL_SIGPOLL == 22
MD_EXCEPTION_CODE_SOL_SIGSTOP == 23
MD_EXCEPTION_CODE_SOL_SIGTSTP == 24
MD_EXCEPTION_CODE_SOL_SIGCONT == 25
MD_EXCEPTION_CODE_SOL_SIGTTIN == 26
MD_EXCEPTION_CODE_SOL_SIGTTOU == 27
MD_EXCEPTION_CODE_SOL_SIGVTALRM == 28
MD_EXCEPTION_CODE_SOL_SIGPROF == 29
MD_EXCEPTION_CODE_SOL_SIGXCPU == 30
MD_EXCEPTION_CODE_SOL_SIGXFSZ == 31
MD_EXCEPTION_CODE_SOL_SIGWAITING == 32
MD_EXCEPTION_CODE_SOL_SIGLWP == 33
MD_EXCEPTION_CODE_SOL_SIGFREEZE == 34
MD_EXCEPTION_CODE_SOL_SIGTHAW == 35
MD_EXCEPTION_CODE_SOL_SIGCANCEL == 36
MD_EXCEPTION_CODE_SOL_SIGLOST == 37
MD_EXCEPTION_CODE_SOL_SIGXRES == 38
MD_EXCEPTION_CODE_SOL_SIGJVM1 == 39
MD_EXCEPTION_CODE_SOL_SIGJVM2 == 40
MD_OS_PS3 == 33284
MD_EXCEPTION_CODE_PS3_UNKNOWN == 0
MD_EXCEPTION_CODE_PS3_TRAP_EXCEP == 1
MD_EXCEPTION_CODE_PS3_PRIV_INSTR == 2
MD_EXCEPTION_CODE_PS3_ILLEGAL_INSTR == 3
MD_EXCEPTION_CODE_PS3_INSTR_STORAGE == 4
MD_EXCEPTION_CODE_PS3_INSTR_SEGMENT == 5
MD_EXCEPTION_CODE_PS3_DATA_STORAGE == 6
MD_EXCEPTION_CODE_PS3_DATA_SEGMENT == 7
MD_EXCEPTION_CODE_PS3_FLOAT_POINT == 8
MD_EXCEPTION_CODE_PS3_DABR_MATCH == 9
MD_EXCEPTION_CODE_PS3_ALIGN_EXCEP == 10
MD_EXCEPTION_CODE_PS3_MEMORY_ACCESS == 11
MD_EXCEPTION_CODE_PS3_COPRO_ALIGN == 12
MD_EXCEPTION_CODE_PS3_COPRO_INVALID_COM == 13
MD_EXCEPTION_CODE_PS3_COPRO_ERR == 14
MD_EXCEPTION_CODE_PS3_COPRO_FIR == 15
MD_EXCEPTION_CODE_PS3_COPRO_DATA_SEGMENT == 16
MD_EXCEPTION_CODE_PS3_COPRO_DATA_STORAGE == 17
MD_EXCEPTION_CODE_PS3_COPRO_STOP_INSTR == 18
MD_EXCEPTION_CODE_PS3_COPRO_HALT_INSTR == 19
MD_EXCEPTION_CODE_PS3_COPRO_HALTINST_UNKNOWN == 20
MD_EXCEPTION_CODE_PS3_COPRO_MEMORY_ACCESS == 21
MD_EXCEPTION_CODE_PS3_GRAPHIC == 22
MD_OS_NACL == 33285
MD_CPU_ARCHITECTURE_ARM64 == 12

\* ------------------------------------------------- GetCrashReason: formatting

HexDigits == <<"0", "1", "2", "3", "4", "5", "6", "7",
               "8", "9", "a", "b", "c", "d", "e", "f">>

\* n >> 4 of the uint32_t n.
ShiftRight4(n) == IF n >= 0 THEN n \div 16 ELSE (n \div 16) + 268435456

\* The digits printf's %x prints for the uint32_t n: lowercase, most
\* significant first, no leading zero.
RECURSIVE HexOf(_)
HexOf(n) == IF 0 <= n /\ n < 16 THEN HexDigits[n + 1]
            ELSE HexOf(ShiftRight4(n)) \o HexDigits[(n % 16) + 1]

RECURSIVE Zeros(_)
Zeros(k) == IF k <= 0 THEN "" ELSE "0" \o Zeros(k - 1)

\* A "0x%x": no padding.
FormatHexUnpadded(n) == "0x" \o HexOf(n)

\* snprintf(.., "0x%08x", n): "0x", then n in hex, zero-padded to 8 digits.
FormatHex08(n) == "0x" \o Zeros(8 - Len(HexOf(n))) \o HexOf(n)

\* snprintf(reason_string, .., "0x%08x / %s", exception_code, flags_string).
DefaultReason(exception_code, flags_string) ==
  FormatHex08(exception_code) \o " / " \o flags_string

\* NTStatusToString lives in symbolic_constants_win.cc; a status it has no name
\* for prints as 0x%08x, which is all the model keeps of it.
NTStatusToString(ntstatus) == FormatHex08(ntstatus)

\* A uint64_t is held as the pair of its high and low 32 bits.
UInt64(high, low) == <<high, low>>

\* static_cast<uint32_t>(x) of a uint64_t.
Low32(x) == x[2]

GetAddressForArchitecture(architecture, raw_address) ==
  IF architecture \in {MD_CPU_ARCHITECTURE_X86, MD_CPU_ARCHITECTURE_MIPS,
                       MD_CPU_ARCHITECTURE_PPC, MD_CPU_ARCHITECTURE_SHX,
                       MD_CPU_ARCHITECTURE_ARM, MD_CPU_ARCHITECTURE_X86_WIN64}
  THEN UInt64(0, Low32(raw_address))
  ELSE raw_address

\* ------------------------------------------------- GetCrashReason: per-OS tables

FuchsiaReason(exception_code, flags_string, reason) ==
  CASE exception_code = MD_EXCEPTION_CODE_FUCHSIA_GENERAL -> "GENERAL / " \o flags_string
    [] exception_code = MD_EXCEPTION_CODE_FUCHSIA_FATAL_PAGE_FAULT -> "FATAL_PAGE_FAULT / " \o flags_string
    [] exception_code = MD_EXCEPTION_CODE_FUCHSIA_UNDEFINED_INSTRUCTION -> "UNDEFINED_INSTRUCTION / " \o flags_string
    [] exception_code = MD_EXCEPTION_CODE_FUCHSIA_SW_BREAKPOINT -> "SW_BREAKPOINT / " \o flags_string
    [] exception_code = MD_EXCEPTION_CODE_FUCHSIA_HW_BREAKPOINT -> "HW_BREAKPOINT / " \o flags_string
    [] exception_code = MD_EXCEPTION_CODE_FUCHSIA_UNALIGNED_ACCESS -> "UNALIGNED_ACCESS / " \o flags_string
    [] exception_code = MD_EXCEPTION_CODE_FUCHSIA_THREAD_STARTING -> "THREAD_STARTING / " \o flags_string
    [] exception_code = MD_EXCEPTION_CODE_FUCHSIA_THREAD_EXITING -> "THREAD_EXITING / " \o flags_string
    [] exception_code = MD_EXCEPTION_CODE_FUCHSIA_POLICY_ERROR -> "POLICY_ERROR / " \o flags_string
    [] exception_code = MD_EXCEPTION_CODE_FUCHSIA_PROCESS_STARTING -> "PROCESS_STARTING / " \o flags_string
    [] OTHER -> reason

MacBadAccessArm(exception_flags, flags_string) ==
  CASE exception_flags = MD_EXCEPTION_CODE_MAC_ARM_DA_ALIGN -> "EXC_ARM_DA_ALIGN"
    [] exception_flags = MD_EXCEPTION_CODE_MAC_ARM_DA_DEBUG -> "EXC_ARM_DA_DEBUG"
    [] OTHER -> flags_string

MacBadAccessPpc(exception_flags, flags_string) ==
  CASE exception_flags = MD_EXCEPTION_CODE_MAC_PPC_VM_PROT_READ -> "EXC_PPC_VM_PROT_READ"
    [] exception_flags = MD_EXCEPTION_CODE_MAC_PPC_BADSPACE -> "EXC_PPC_BADSPACE"
    [] exception_flags = MD_EXCEPTION_CODE_MAC_PPC_UNALIGNED -> "EXC_PPC_UNALIGNED"
    [] OTHER -> flags_string

MacBadAccessX86(exception_flags, flags_string) ==
  CASE exception_flags = MD_EXCEPTION_CODE_MAC_X86_GENERAL_PROTECTION_FAULT -> "EXC_I386_GPFLT"
    [] OTHER -> flags_string

\* The default arm of the EXC_BAD_ACCESS flags switch: "arm and ppc overlap".
MacBadAccessByArch(exception_flags, processor_architecture, flags_string) ==
  IF processor_architecture = MD_CPU_ARCHITECTURE_ARM
     \/ processor_architecture = MD_CPU_ARCHITECTURE_ARM64_OLD
  THEN MacBadAccessArm(exception_flags, flags_string)
  ELSE IF processor_architecture = MD_CPU_ARCHITECTURE_PPC
  THEN MacBadAccessPpc(exception_flags, flags_string)
  ELSE IF processor_architecture = MD_CPU_ARCHITECTURE_X86
          \/ processor_architecture = MD_CPU_ARCHITECTURE_AMD64
  THEN MacBadAccessX86(exception_flags, flags_string)
  ELSE flags_string

MacBadAccess(exception_flags, processor_architecture, flags_string) ==
  CASE exception_flags = MD_EXCEPTION_CODE_MAC_INVALID_ADDRESS -> "KERN_INVALID_ADDRESS"
    [] exception_flags = MD_EXCEPTION_CODE_MAC_PROTECTION_FAILURE -> "KERN_PROTECTION_FAILURE"
    [] exception_flags = MD_EXCEPTION_CODE_MAC_NO_ACCESS -> "KERN_NO_ACCESS"
    [] exception_flags = MD_EXCEPTION_CODE_MAC_MEMORY_FAILURE -> "KERN_MEMORY_FAILURE"
    [] exception_flags = MD_EXCEPTION_CODE_MAC_MEMORY_ERROR -> "KERN_MEMORY_ERROR"
    [] exception_flags = MD_EXCEPTION_CODE_MAC_CODESIGN_ERROR -> "KERN_CODESIGN_ERROR"
    [] OTHER -> MacBadAccessByArch(exception_flags, processor_architecture, flags_string)

MacBadInstructionArm(exception_flags, flags_string) ==
  CASE exception_flags = MD_EXCEPTION_CODE_MAC_ARM_UNDEFINED -> "EXC_ARM_UNDEFINED"
    [] OTHER -> flags_string

MacBadInstructionPpc(exception_flags, flags_string) ==
  CASE exception_flags = MD_EXCEPTION_CODE_MAC_PPC_INVALID_SYSCALL -> "EXC_PPC_INVALID_SYSCALL"
    [] exception_flags = MD_EXCEPTION_CODE_MAC_PPC_UNIMPLEMENTED_INSTRUCTION -> "EXC_PPC_UNIPL_INST"
    [] exception_flags = MD_EXCEPTION_CODE_MAC_PPC_PRIVILEGED_INSTRUCTION -> "EXC_PPC_PRIVINST"
    [] exception_flags = MD_EXCEPTION_CODE_MAC_PPC_PRIVILEGED_REGISTER -> "EXC_PPC_PRIVREG"
    [] exception_flags = MD_EXCEPTION_CODE_MAC_PPC_TRACE -> "EXC_PPC_TRACE"
    [] exception_flags = MD_EXCEPTION_CODE_MAC_PPC_PERFORMANCE_MONITOR -> "EXC_PPC_PERFMON"
    [] OTHER -> flags_string

MacBadInstructionX86(exception_flags, flags_string) ==
  CASE exception_flags = MD_EXCEPTION_CODE_MAC_X86_INVALID_OPERATION -> "EXC_I386_INVOP"
    [] exception_flags = MD_EXCEPTION_CODE_MAC_X86_INVALID_TASK_STATE_SEGMENT -> "EXC_I386_INVTSSFLT"
    [] exception_flags = MD_EXCEPTION_CODE_MAC_X86_SEGMENT_NOT_PRESENT -> "EXC_I386_SEGNPFLT"
    [] exception_flags = MD_EXCEPTION_CODE_MAC_X86_STACK_FAULT -> "EXC_I386_STKFLT"
    [] exception_flags = MD_EXCEPTION_CODE_MAC_X86_GENERAL_PROTECTION_FAULT -> "EXC_I386_GPFLT"
    [] exception_flags = MD_EXCEPTION_CODE_MAC_X86_ALIGNMENT_FAULT -> "EXC_I386_ALIGNFLT"
    [] OTHER -> flags_string

MacBadInstruction(exception_flags, processor_architecture, flags_string) ==
  CASE processor_architecture = MD_CPU_ARCHITECTURE_ARM
       \/ processor_architecture = MD_CPU_ARCHITECTURE_ARM64_OLD ->
         MacBadInstructionArm(exception_flags, flags_string)
    [] processor_architecture = MD_CPU_ARCHITECTURE_PPC ->
         MacBadInstructionPpc(exception_flags, flags_string)
    [] processor_architecture = MD_CPU_ARCHITECTURE_AMD64
       \/ processor_architecture = MD_CPU_ARCHITECTURE_X86 ->
         MacBadInstructionX86(exception_flags, flags_string)
    [] OTHER -> flags_string


MacArithmeticPpc(exception_flags, flags_string) ==
  CASE exception_flags = MD_EXCEPTION_CODE_MAC_PPC_OVERFLOW -> "EXC_PPC_OVERFLOW"
    [] exception_flags = MD_EXCEPTION_CODE_MAC_PPC_ZERO_DIVIDE -> "EXC_PPC_ZERO_DIVIDE"
    [] exception_flags = MD_EXCEPTION_CODE_MAC_PPC_FLOAT_INEXACT -> "EXC_FLT_INEXACT"
    [] exception_flags = MD_EXCEPTION_CODE_MAC_PPC_FLOAT_ZERO_DIVIDE -> "EXC_PPC_FLT_ZERO_DIVIDE"
    [] exception_flags = MD_EXCEPTION_CODE_MAC_PPC_FLOAT_UNDERFLOW -> "EXC_PPC_FLT_UNDERFLOW"
    [] exception_flags = MD_EXCEPTION_CODE_MAC_PPC_FLOAT_OVERFLOW -> "EXC_PPC_FLT_OVERFLOW"
    [] exception_flags = MD_EXCEPTION_CODE_MAC_PPC_FLOAT_NOT_A_NUMBER -> "EXC_PPC_FLT_NOT_A_NUMBER"
    [] exception_flags = MD_EXCEPTION_CODE_MAC_PPC_NO_EMULATION -> "EXC_PPC_NOEMULATION"
    [] exception_flags = MD_EXCEPTION_CODE_MAC_PPC_ALTIVEC_ASSIST -> "EXC_PPC_ALTIVECASSIST"
    [] OTHER -> flags_string

MacArithmeticX86(exception_flags, flags_string) ==
  CASE exception_flags = MD_EXCEPTION_CODE_MAC_X86_DIV -> "EXC_I386_DIV"
    [] exception_flags = MD_EXCEPTION_CODE_MAC_X86_INTO -> "EXC_I386_INTO"
    [] exception_flags = MD_EXCEPTION_CODE_MAC_X86_NOEXT -> "EXC_I386_NOEXT"
    [] exception_flags = MD_EXCEPTION_CODE_MAC_X86_EXTOVR -> "EXC_I386_EXTOVR"
    [] exception_flags = MD_EXCEPTION_CODE_MAC_X86_EXTERR -> "EXC_I386_EXTERR"
    [] exception_flags = MD_EXCEPTION_CODE_MAC_X86_EMERR -> "EXC_I386_EMERR"
    [] exception_flags = MD_EXCEPTION_CODE_MAC_X86_BOUND -> "EXC_I386_BOUND"
    [] exception_flags = MD_EXCEPTION_CODE_MAC_X86_SSEEXTERR -> "EXC_I386_SSEEXTERR"
    [] OTHER -> flags_string

MacArithmetic(exception_flags, processor_architecture, flags_string) ==
  CASE processor_architecture = MD_CPU_ARCHITECTURE_PPC ->
         MacArithmeticPpc(exception_flags, flags_string)
    [] processor_architecture = MD_CPU_ARCHITECTURE_AMD64
       \/ processor_architecture = MD_CPU_ARCHITECTURE_X86 ->
         MacArithmeticX86(exception_flags, flags_string)
    [] OTHER -> flags_string

MacSoftware(exception_flags, flags_string) ==
  CASE exception_flags = MD_EXCEPTION_CODE_MAC_ABORT -> "SIGABRT"
    [] exception_flags = MD_EXCEPTION_CODE_MAC_NS_EXCEPTION -> "UNCAUGHT_NS_EXCEPTION"
    [] exception_flags = MD_EXCEPTION_CODE_MAC_PPC_TRAP -> "EXC_PPC_TRAP"
    [] exception_flags = MD_EXCEPTION_CODE_MAC_PPC_MIGRATE -> "EXC_PPC_MIGRATE"
    [] OTHER -> flags_string

MacBreakpointArm(exception_flags, flags_string) ==
  CASE exception_flags = MD_EXCEPTION_CODE_MAC_ARM_DA_ALIGN -> "EXC_ARM_DA_ALIGN"
    [] exception_flags = MD_EXCEPTION_CODE_MAC_ARM_DA_DEBUG -> "EXC_ARM_DA_DEBUG"
    [] exception_flags = MD_EXCEPTION_CODE_MAC_ARM_BREAKPOINT -> "EXC_ARM_BREAKPOINT"
    [] OTHER -> flags_string

MacBreakpointPpc(exception_flags, flags_string) ==
  CASE exception_flags = MD_EXCEPTION_CODE_MAC_PPC_BREAKPOINT -> "EXC_PPC_BREAKPOINT"
    [] OTHER -> flags_string

MacBreakpointX86(exception_flags, flags_string) ==
  CASE exception_flags = MD_EXCEPTION_CODE_MAC_X86_SGL -> "EXC_I386_SGL"
    [] exception_flags = MD_EXCEPTION_CODE_MAC_X86_BPT -> "EXC_I386_BPT"
    [] OTHER -> flags_string

MacBreakpoint(exception_flags, processor_architecture, flags_string) ==
  CASE processor_architecture = MD_CPU_ARCHITECTURE_ARM
       \/ processor_architecture = MD_CPU_ARCHITECTURE_ARM64_OLD ->
         MacBreakpointArm(exception_flags, flags_string)
    [] processor_architecture = MD_CPU_ARCHITECTURE_PPC ->
         MacBreakpointPpc(exception_flags, flags_string)
    [] processor_architecture = MD_CPU_ARCHITECTURE_AMD64
       \/ processor_architecture = MD_CPU_ARCHITECTURE_X86 ->
         MacBreakpointX86(exception_flags, flags_string)
    [] OTHER -> flags_string

\* case MD_OS_MAC_OS_X, MD_OS_IOS: the exception_code switch has no default arm.
MacReason(exception_code, exception_flags, processor_architecture, flags_string, reason) ==
  CASE exception_code = MD_EXCEPTION_MAC_BAD_ACCESS ->
         "EXC_BAD_ACCESS / "
           \o MacBadAccess(exception_flags, processor_architecture, flags_string)
    [] exception_code = MD_EXCEPTION_MAC_BAD_INSTRUCTION ->
         "EXC_BAD_INSTRUCTION / "
           \o MacBadInstruction(exception_flags, processor_architecture, flags_string)
    [] exception_code = MD_EXCEPTION_MAC_ARITHMETIC ->
         "EXC_ARITHMETIC / "
           \o MacArithmetic(exception_flags, processor_architecture, flags_string)
    [] exception_code = MD_EXCEPTION_MAC_EMULATION -> "EXC_EMULATION / " \o flags_string
    [] exception_code = MD_EXCEPTION_MAC_SOFTWARE ->
         "EXC_SOFTWARE / " \o MacSoftware(exception_flags, flags_string)
    [] exception_code = MD_EXCEPTION_MAC_BREAKPOINT ->
         "EXC_BREAKPOINT / "
           \o MacBreakpoint(exception_flags, processor_architecture, flags_string)
    [] exception_code = MD_EXCEPTION_MAC_SYSCALL -> "EXC_SYSCALL / " \o flags_string
    [] exception_code = MD_EXCEPTION_MAC_MACH_SYSCALL ->
         "EXC_MACH_SYSCALL / " \o flags_string
    [] exception_code = MD_EXCEPTION_MAC_RPC_ALERT -> "EXC_RPC_ALERT / " \o flags_string
    [] exception_code = MD_EXCEPTION_MAC_RESOURCE -> "EXC_RESOURCE / " \o flags_string
    [] exception_code = MD_EXCEPTION_MAC_GUARD -> "EXC_GUARD / " \o flags_string
    [] exception_code = MD_EXCEPTION_MAC_SIMULATED -> "Simulated Exception"
    [] exception_code = MD_NS_EXCEPTION_SIMULATED -> "Uncaught NSException"
    [] OTHER -> reason


WinAccessViolation(number_parameters, exception_information) ==
  IF number_parameters >= 1
  THEN
    CASE Low32(exception_information[1]) = MD_ACCESS_VIOLATION_WIN_READ -> "EXCEPTION_ACCESS_VIOLATION_READ"
      [] Low32(exception_information[1]) = MD_ACCESS_VIOLATION_WIN_WRITE -> "EXCEPTION_ACCESS_VIOLATION_WRITE"
      [] Low32(exception_information[1]) = MD_ACCESS_VIOLATION_WIN_EXEC -> "EXCEPTION_ACCESS_VIOLATION_EXEC"
      [] OTHER -> "EXCEPTION_ACCESS_VIOLATION"
  ELSE "EXCEPTION_ACCESS_VIOLATION"

WinInPageError(number_parameters, exception_information) ==
  (IF number_parameters >= 1
   THEN
     CASE Low32(exception_information[1]) = MD_IN_PAGE_ERROR_WIN_READ -> "EXCEPTION_IN_PAGE_ERROR_READ"
       [] Low32(exception_information[1]) = MD_IN_PAGE_ERROR_WIN_WRITE -> "EXCEPTION_IN_PAGE_ERROR_WRITE"
       [] Low32(exception_information[1]) = MD_IN_PAGE_ERROR_WIN_EXEC -> "EXCEPTION_IN_PAGE_ERROR_EXEC"
       [] OTHER -> "EXCEPTION_IN_PAGE_ERROR"
   ELSE "EXCEPTION_IN_PAGE_ERROR")
  \o (IF number_parameters >= 3
      THEN " / " \o NTStatusToString(Low32(exception_information[3]))
      ELSE "")

WinStackBufferOverrun(number_parameters, exception_information) ==
  IF number_parameters >= 1
  THEN
    CASE Low32(exception_information[1]) = MD_FAST_FAIL_VTGUARD_CHECK_FAILURE -> "FAST_FAIL_VTGUARD_CHECK_FAILURE"
      [] Low32(exception_information[1]) = MD_FAST_FAIL_STACK_COOKIE_CHECK_FAILURE -> "FAST_FAIL_STACK_COOKIE_CHECK_FAILURE"
      [] Low32(exception_information[1]) = MD_FAST_FAIL_CORRUPT_LIST_ENTRY -> "FAST_FAIL_CORRUPT_LIST_ENTRY"
      [] Low32(exception_information[1]) = MD_FAST_FAIL_INCORRECT_STACK -> "FAST_FAIL_INCORRECT_STACK"
      [] Low32(exception_information[1]) = MD_FAST_FAIL_INVALID_ARG -> "FAST_FAIL_INVALID_ARG"
      [] Low32(exception_information[1]) = MD_FAST_FAIL_GS_COOKIE_INIT -> "FAST_FAIL_GS_COOKIE_INIT"
      [] Low32(exception_information[1]) = MD_FAST_FAIL_FATAL_APP_EXIT -> "FAST_FAIL_FATAL_APP_EXIT"
      [] Low32(exception_information[1]) = MD_FAST_FAIL_RANGE_CHECK_FAILURE -> "FAST_FAIL_RANGE_CHECK_FAILURE"
      [] Low32(exception_information[1]) = MD_FAST_FAIL_UNSAFE_REGISTRY_ACCESS -> "FAST_FAIL_UNSAFE_REGISTRY_ACCESS"
      [] Low32(exception_information[1]) = MD_FAST_FAIL_GUARD_ICALL_CHECK_FAILURE -> "FAST_FAIL_GUARD_ICALL_CHECK_FAILURE"
      [] Low32(exception_information[1]) = MD_FAST_FAIL_GUARD_WRITE_CHECK_FAILURE -> "FAST_FAIL_GUARD_WRITE_CHECK_FAILURE"
      [] Low32(exception_information[1]) = MD_FAST_FAIL_INVALID_FIBER_SWITCH -> "FAST_FAIL_INVALID_FIBER_SWITCH"
      [] Low32(exception_information[1]) = MD_FAST_FAIL_INVALID_SET_OF_CONTEXT -> "FAST_FAIL_INVALID_SET_OF_CONTEXT"
      [] Low32(exception_information[1]) = MD_FAST_FAIL_INVALID_REFERENCE_COUNT -> "FAST_FAIL_INVALID_REFERENCE_COUNT"
      [] Low32(exception_information[1]) = MD_FAST_FAIL_INVALID_JUMP_BUFFER -> "FAST_FAIL_INVALID_JUMP_BUFFER"
      [] Low32(exception_information[1]) = MD_FAST_FAIL_MRDATA_MODIFIED -> "FAST_FAIL_MRDATA_MODIFIED"
      [] Low32(exception_information[1]) = MD_FAST_FAIL_CERTIFICATION_FAILURE -> "FAST_FAIL_CERTIFICATION_FAILURE"
      [] Low32(exception_information[1]) = MD_FAST_FAIL_INVALID_EXCEPTION_CHAIN -> "FAST_FAIL_INVALID_EXCEPTION_CHAIN"
      [] Low32(exception_information[1]) = MD_FAST_FAIL_CRYPTO_LIBRARY -> "FAST_FAIL_CRYPTO_LIBRARY"
      [] Low32(exception_information[1]) = MD_FAST_FAIL_INVALID_CALL_IN_DLL_CALLOUT -> "FAST_FAIL_INVALID_CALL_IN_DLL_CALLOUT"
      [] Low32(exception_information[1]) = MD_FAST_FAIL_INVALID_IMAGE_BASE -> "FAST_FAIL_INVALID_IMAGE_BASE"
      [] Low32(exception_information[1]) = MD_FAST_FAIL_DLOAD_PROTECTION_FAILURE -> "FAST_FAIL_DLOAD_PROTECTION_FAILURE"
      [] Low32(exception_information[1]) = MD_FAST_FAIL_UNSAFE_EXTENSION_CALL -> "FAST_FAIL_UNSAFE_EXTENSION_CALL"
      [] Low32(exception_information[1]) = MD_FAST_FAIL_DEPRECATED_SERVICE_INVOKED -> "FAST_FAIL_DEPRECATED_SERVICE_INVOKED"
      [] Low32(exception_information[1]) = MD_FAST_FAIL_INVALID_BUFFER_ACCESS -> "FAST_FAIL_INVALID_BUFFER_ACCESS"
      [] Low32(exception_information[1]) = MD_FAST_FAIL_INVALID_BALANCED_TREE -> "FAST_FAIL_INVALID_BALANCED_TREE"
      [] Low32(exception_information[1]) = MD_FAST_FAIL_INVALID_NEXT_THREAD -> "FAST_FAIL_INVALID_NEXT_THREAD"
      [] Low32(exception_information[1]) = MD_FAST_FAIL_GUARD_ICALL_CHECK_SUPPRESSED -> "FAST_FAIL_GUARD_ICALL_CHECK_SUPPRESSED"
      [] Low32(exception_information[1]) = MD_FAST_FAIL_APCS_DISABLED -> "FAST_FAIL_APCS_DISABLED"
      [] Low32(exception_information[1]) = MD_FAST_FAIL_INVALID_IDLE_STATE -> "FAST_FAIL_INVALID_IDLE_STATE"
      [] Low32(exception_information[1]) = MD_FAST_FAIL_MRDATA_PROTECTION_FAILURE -> "FAST_FAIL_MRDATA_PROTECTION_FAILURE"
      [] Low32(exception_information[1]) = MD_FAST_FAIL_UNEXPECTED_HEAP_EXCEPTION -> "FAST_FAIL_UNEXPECTED_HEAP_EXCEPTION"
      [] Low32(exception_information[1]) = MD_FAST_FAIL_INVALID_LOCK_STATE -> "FAST_FAIL_INVALID_LOCK_STATE"
      [] Low32(exception_information[1]) = MD_FAST_FAIL_GUARD_JUMPTABLE -> "FAST_FAIL_GUARD_JUMPTABLE"
      [] Low32(exception_information[1]) = MD_FAST_FAIL_INVALID_LONGJUMP_TARGET -> "FAST_FAIL_INVALID_LONGJUMP_TARGET"
      [] Low32(exception_information[1]) = MD_FAST_FAIL_INVALID_DISPATCH_CONTEXT -> "FAST_FAIL_INVALID_DISPATCH_CONTEXT"
      [] Low32(exception_information[1]) = MD_FAST_FAIL_INVALID_THREAD -> "FAST_FAIL_INVALID_THREAD"
      [] Low32(exception_information[1]) = MD_FAST_FAIL_INVALID_SYSCALL_NUMBER -> "FAST_FAIL_INVALID_SYSCALL_NUMBER"
      [] Low32(exception_information[1]) = MD_FAST_FAIL_INVALID_FILE_OPERATION -> "FAST_FAIL_INVALID_FILE_OPERATION"
      [] Low32(exception_information[1]) = MD_FAST_FAIL_LPAC_ACCESS_DENIED -> "FAST_FAIL_LPAC_ACCESS_DENIED"
      [] Low32(exception_information[1]) = MD_FAST_FAIL_GUARD_SS_FAILURE -> "FAST_FAIL_GUARD_SS_FAILURE"
      [] Low32(exception_information[1]) = MD_FAST_FAIL_LOADER_CONTINUITY_FAILURE -> "FAST_FAIL_LOADER_CONTINUITY_FAILURE"
      [] Low32(exception_information[1]) = MD_FAST_FAIL_GUARD_EXPORT_SUPPRESSION_FAILURE -> "FAST_FAIL_GUARD_EXPORT_SUPPRESSION_FAILURE"
      [] Low32(exception_information[1]) = MD_FAST_FAIL_INVALID_CONTROL_STACK -> "FAST_FAIL_INVALID_CONTROL_STACK"
      [] Low32(exception_information[1]) = MD_FAST_FAIL_SET_CONTEXT_DENIED -> "FAST_FAIL_SET_CONTEXT_DENIED"
      [] Low32(exception_information[1]) = MD_FAST_FAIL_INVALID_IAT -> "FAST_FAIL_INVALID_IAT"
      [] Low32(exception_information[1]) = MD_FAST_FAIL_HEAP_METADATA_CORRUPTION -> "FAST_FAIL_HEAP_METADATA_CORRUPTION"
      [] Low32(exception_information[1]) = MD_FAST_FAIL_PAYLOAD_RESTRICTION_VIOLATION -> "FAST_FAIL_PAYLOAD_RESTRICTION_VIOLATION"
      [] Low32(exception_information[1]) = MD_FAST_FAIL_LOW_LABEL_ACCESS_DENIED -> "FAST_FAIL_LOW_LABEL_ACCESS_DENIED"
      [] Low32(exception_information[1]) = MD_FAST_FAIL_ENCLAVE_CALL_FAILURE -> "FAST_FAIL_ENCLAVE_CALL_FAILURE"
      [] Low32(exception_information[1]) = MD_FAST_FAIL_UNHANDLED_LSS_EXCEPTON -> "FAST_FAIL_UNHANDLED_LSS_EXCEPTON"
      [] Low32(exception_information[1]) = MD_FAST_FAIL_ADMINLESS_ACCESS_DENIED -> "FAST_FAIL_ADMINLESS_ACCESS_DENIED"
      [] Low32(exception_information[1]) = MD_FAST_FAIL_UNEXPECTED_CALL -> "FAST_FAIL_UNEXPECTED_CALL"
      [] Low32(exception_information[1]) = MD_FAST_FAIL_CONTROL_INVALID_RETURN_ADDRESS -> "FAST_FAIL_CONTROL_INVALID_RETURN_ADDRESS"
      [] Low32(exception_information[1]) = MD_FAST_FAIL_UNEXPECTED_HOST_BEHAVIOR -> "FAST_FAIL_UNEXPECTED_HOST_BEHAVIOR"
      [] Low32(exception_information[1]) = MD_FAST_FAIL_FLAGS_CORRUPTION -> "FAST_FAIL_FLAGS_CORRUPTION"
      [] Low32(exception_information[1]) = MD_FAST_FAIL_VEH_CORRUPTION -> "FAST_FAIL_VEH_CORRUPTION"
      [] Low32(exception_information[1]) = MD_FAST_FAIL_ETW_CORRUPTION -> "FAST_FAIL_ETW_CORRUPTION"
      [] Low32(exception_information[1]) = MD_FAST_FAIL_RIO_ABORT -> "FAST_FAIL_RIO_ABORT"
      [] Low32(exception_information[1]) = MD_FAST_FAIL_INVALID_PFN -> "FAST_FAIL_INVALID_PFN"
      [] Low32(exception_information[1]) = MD_FAST_FAIL_GUARD_ICALL_CHECK_FAILURE_XFG -> "FAST_FAIL_GUARD_ICALL_CHECK_FAILURE_XFG"
      [] Low32(exception_information[1]) = MD_FAST_FAIL_CAST_GUARD -> "FAST_FAIL_CAST_GUARD"
      [] Low32(exception_information[1]) = MD_FAST_FAIL_HOST_VISIBILITY_CHANGE -> "FAST_FAIL_HOST_VISIBILITY_CHANGE"
      [] Low32(exception_information[1]) = MD_FAST_FAIL_KERNEL_CET_SHADOW_STACK_ASSIST -> "FAST_FAIL_KERNEL_CET_SHADOW_STACK_ASSIST"
      [] Low32(exception_information[1]) = MD_FAST_FAIL_PATCH_CALLBACK_FAILED -> "FAST_FAIL_PATCH_CALLBACK_FAILED"
      [] Low32(exception_information[1]) = MD_FAST_FAIL_NTDLL_PATCH_FAILED -> "FAST_FAIL_NTDLL_PATCH_FAILED"
      [] Low32(exception_information[1]) = MD_FAST_FAIL_INVALID_FLS_DATA -> "FAST_FAIL_INVALID_FLS_DATA"
      [] OTHER -> "EXCEPTION_STACK_BUFFER_OVERRUN"
  ELSE "EXCEPTION_STACK_BUFFER_OVERRUN"

\* case MD_OS_WIN32_NT, MD_OS_WIN32_WINDOWS.  exception_information is 1-based
\* here: exception_information[k + 1] is the code's exception_information[k].
WindowsReason(exception_code, number_parameters, exception_information, reason) ==
  CASE exception_code = MD_EXCEPTION_CODE_WIN_CONTROL_C -> "DBG_CONTROL_C"
    [] exception_code = MD_EXCEPTION_CODE_WIN_GUARD_PAGE_VIOLATION -> "EXCEPTION_GUARD_PAGE"
    [] exception_code = MD_EXCEPTION_CODE_WIN_DATATYPE_MISALIGNMENT -> "EXCEPTION_DATATYPE_MISALIGNMENT"
    [] exception_code = MD_EXCEPTION_CODE_WIN_BREAKPOINT -> "EXCEPTION_BREAKPOINT"
    [] exception_code = MD_EXCEPTION_CODE_WIN_SINGLE_STEP -> "EXCEPTION_SINGLE_STEP"
    [] exception_code = MD_EXCEPTION_CODE_WIN_ACCESS_VIOLATION -> WinAccessViolation(number_parameters, exception_information)
    [] exception_code = MD_EXCEPTION_CODE_WIN_IN_PAGE_ERROR -> WinInPageError(number_parameters, exception_information)
    [] exception_code = MD_EXCEPTION_CODE_WIN_INVALID_HANDLE -> "EXCEPTION_INVALID_HANDLE"
    [] exception_code = MD_EXCEPTION_CODE_WIN_ILLEGAL_INSTRUCTION -> "EXCEPTION_ILLEGAL_INSTRUCTION"
    [] exception_code = MD_EXCEPTION_CODE_WIN_NONCONTINUABLE_EXCEPTION -> "EXCEPTION_NONCONTINUABLE_EXCEPTION"
    [] exception_code = MD_EXCEPTION_CODE_WIN_INVALID_DISPOSITION -> "EXCEPTION_INVALID_DISPOSITION"
    [] exception_code = MD_EXCEPTION_CODE_WIN_ARRAY_BOUNDS_EXCEEDED -> "EXCEPTION_BOUNDS_EXCEEDED"
    [] exception_code = MD_EXCEPTION_CODE_WIN_FLOAT_DENORMAL_OPERAND -> "EXCEPTION_FLT_DENORMAL_OPERAND"
    [] exception_code = MD_EXCEPTION_CODE_WIN_FLOAT_DIVIDE_BY_ZERO -> "EXCEPTION_FLT_DIVIDE_BY_ZERO"
    [] exception_code = MD_EXCEPTION_CODE_WIN_FLOAT_INEXACT_RESULT -> "EXCEPTION_FLT_INEXACT_RESULT"
    [] exception_code = MD_EXCEPTION_CODE_WIN_FLOAT_INVALID_OPERATION -> "EXCEPTION_FLT_INVALID_OPERATION"
    [] exception_code = MD_EXCEPTION_CODE_WIN_FLOAT_OVERFLOW -> "EXCEPTION_FLT_OVERFLOW"
    [] exception_code = MD_EXCEPTION_CODE_WIN_FLOAT_STACK_CHECK -> "EXCEPTION_FLT_STACK_CHECK"
    [] exception_code = MD_EXCEPTION_CODE_WIN_FLOAT_UNDERFLOW -> "EXCEPTION_FLT_UNDERFLOW"
    [] exception_code = MD_EXCEPTION_CODE_WIN_INTEGER_DIVIDE_BY_ZERO -> "EXCEPTION_INT_DIVIDE_BY_ZERO"
    [] exception_code = MD_EXCEPTION_CODE_WIN_INTEGER_OVERFLOW -> "EXCEPTION_INT_OVERFLOW"
    [] exception_code = MD_EXCEPTION_CODE_WIN_PRIVILEGED_INSTRUCTION -> "EXCEPTION_PRIV_INSTRUCTION"
    [] exception_code = MD_EXCEPTION_CODE_WIN_STACK_OVERFLOW -> "EXCEPTION_STACK_OVERFLOW"
    [] exception_code = MD_EXCEPTION_CODE_WIN_BAD_FUNCTION_TABLE -> "EXCEPTION_BAD_FUNCTION_TABLE"
    [] exception_code = MD_EXCEPTION_CODE_WIN_POSSIBLE_DEADLOCK -> "EXCEPTION_POSSIBLE_DEADLOCK"
    [] exception_code = MD_EXCEPTION_CODE_WIN_STACK_BUFFER_OVERRUN -> WinStackBufferOverrun(number_parameters, exception_information)
    [] exception_code = MD_EXCEPTION_CODE_WIN_HEAP_CORRUPTION -> "EXCEPTION_HEAP_CORRUPTION"
    [] exception_code = MD_EXCEPTION_OUT_OF_MEMORY -> "Out of Memory"
    [] exception_code = MD_EXCEPTION_CODE_WIN_UNHANDLED_CPP_EXCEPTION -> "Unhandled C++ Exception"
    [] OTHER -> reason

\* The address a Windows access violation or in-page error leaves in *address.
WindowsAddress(exception_code, number_parameters, exception_information, address) ==
  IF (exception_code = MD_EXCEPTION_CODE_WIN_ACCESS_VIOLATION
      \/ exception_code = MD_EXCEPTION_CODE_WIN_IN_PAGE_ERROR)
     /\ number_parameters >= 2
  THEN exception_information[2]
  ELSE address

LinuxSigill(exception_flags, flags_string) ==
  CASE exception_flags = MD_EXCEPTION_FLAG_LIN_ILL_ILLOPC -> "ILL_ILLOPC"
    [] exception_flags = MD_EXCEPTION_FLAG_LIN_ILL_ILLOPN -> "ILL_ILLOPN"
    [] exception_flags = MD_EXCEPTION_FLAG_LIN_ILL_ILLADR -> "ILL_ILLADR"
    [] exception_flags = MD_EXCEPTION_FLAG_LIN_ILL_ILLTRP -> "ILL_ILLTRP"
    [] exception_flags = MD_EXCEPTION_FLAG_LIN_ILL_PRVOPC -> "ILL_PRVOPC"
    [] exception_flags = MD_EXCEPTION_FLAG_LIN_ILL_PRVREG -> "ILL_PRVREG"
    [] exception_flags = MD_EXCEPTION_FLAG_LIN_ILL_COPROC -> "ILL_COPROC"
    [] exception_flags = MD_EXCEPTION_FLAG_LIN_ILL_BADSTK -> "ILL_BADSTK"
    [] OTHER -> flags_string

LinuxSigbus(exception_flags, flags_string) ==
  CASE exception_flags = MD_EXCEPTION_FLAG_LIN_BUS_ADRALN -> "BUS_ADRALN"
    [] exception_flags = MD_EXCEPTION_FLAG_LIN_BUS_ADRERR -> "BUS_ADRERR"
    [] exception_flags = MD_EXCEPTION_FLAG_LIN_BUS_OBJERR -> "BUS_OBJERR"
    [] exception_flags = MD_EXCEPTION_FLAG_LIN_BUS_MCEERR_AR -> "BUS_MCEERR_AR"
    [] exception_flags = MD_EXCEPTION_FLAG_LIN_BUS_MCEERR_AO -> "BUS_MCEERR_AO"
    [] OTHER -> flags_string

LinuxSigfpe(exception_flags, flags_string) ==
  CASE exception_flags = MD_EXCEPTION_FLAG_LIN_FPE_INTDIV -> "FPE_INTDIV"
    [] exception_flags = MD_EXCEPTION_FLAG_LIN_FPE_INTOVF -> "FPE_INTOVF"
    [] exception_flags = MD_EXCEPTION_FLAG_LIN_FPE_FLTDIV -> "FPE_FLTDIV"
    [] exception_flags = MD_EXCEPTION_FLAG_LIN_FPE_FLTOVF -> "FPE_FLTOVF"
    [] exception_flags = MD_EXCEPTION_FLAG_LIN_FPE_FLTUND -> "FPE_FLTUND"
    [] exception_flags = MD_EXCEPTION_FLAG_LIN_FPE_FLTRES -> "FPE_FLTRES"
    [] exception_flags = MD_EXCEPTION_FLAG_LIN_FPE_FLTINV -> "FPE_FLTINV"
    [] exception_flags = MD_EXCEPTION_FLAG_LIN_FPE_FLTSUB -> "FPE_FLTSUB"
    [] OTHER -> flags_string

LinuxSigsegv(exception_flags, flags_string) ==
  CASE exception_flags = MD_EXCEPTION_FLAG_LIN_SEGV_MAPERR -> "SEGV_MAPERR"
    [] exception_flags = MD_EXCEPTION_FLAG_LIN_SEGV_ACCERR -> "SEGV_ACCERR"
    [] exception_flags = MD_EXCEPTION_FLAG_LIN_SEGV_BNDERR -> "SEGV_BNDERR"
    [] exception_flags = MD_EXCEPTION_FLAG_LIN_SEGV_PKUERR -> "SEGV_PKUERR"
    [] exception_flags = MD_EXCEPTION_FLAG_LIN_SEGV_ACCADI -> "SEGV_ACCADI"
    [] exception_flags = MD_EXCEPTION_FLAG_LIN_SEGV_ADIDERR -> "SEGV_ADIDERR"
    [] exception_flags = MD_EXCEPTION_FLAG_LIN_SEGV_ADIPERR -> "SEGV_ADIPERR"
    [] exception_flags = MD_EXCEPTION_FLAG_LIN_SEGV_MTEAERR -> "SEGV_MTEAERR"
    [] exception_flags = MD_EXCEPTION_FLAG_LIN_SEGV_MTESERR -> "SEGV_MTESERR"
    [] OTHER -> flags_string

\* case MD_OS_ANDROID, MD_OS_LINUX.
LinuxReason(exception_code, exception_flags, flags_string, reason) ==
  CASE exception_code = MD_EXCEPTION_CODE_LIN_SIGHUP -> "SIGHUP"
    [] exception_code = MD_EXCEPTION_CODE_LIN_SIGINT -> "SIGINT"
    [] exception_code = MD_EXCEPTION_CODE_LIN_SIGQUIT -> "SIGQUIT"
    [] exception_code = MD_EXCEPTION_CODE_LIN_SIGILL -> "SIGILL / " \o LinuxSigill(exception_flags, flags_string)
    [] exception_code = MD_EXCEPTION_CODE_LIN_SIGTRAP -> "SIGTRAP"
    [] exception_code = MD_EXCEPTION_CODE_LIN_SIGABRT -> "SIGABRT"
    [] exception_code = MD_EXCEPTION_CODE_LIN_SIGBUS -> "SIGBUS / " \o LinuxSigbus(exception_flags, flags_string)
    [] exception_code = MD_EXCEPTION_CODE_LIN_SIGFPE -> "SIGFPE / " \o LinuxSigfpe(exception_flags, flags_string)
    [] exception_code = MD_EXCEPTION_CODE_LIN_SIGKILL -> "SIGKILL"
    [] exception_code = MD_EXCEPTION_CODE_LIN_SIGUSR1 -> "SIGUSR1"
    [] exception_code = MD_EXCEPTION_CODE_LIN_SIGSEGV -> "SIGSEGV /" \o LinuxSigsegv(exception_flags, flags_string)
    [] exception_code = MD_EXCEPTION_CODE_LIN_SIGUSR2 -> "SIGUSR2"
    [] exception_code = MD_EXCEPTION_CODE_LIN_SIGPIPE -> "SIGPIPE"
    [] exception_code = MD_EXCEPTION_CODE_LIN_SIGALRM -> "SIGALRM"
    [] exception_code = MD_EXCEPTION_CODE_LIN_SIGTERM -> "SIGTERM"
    [] exception_code = MD_EXCEPTION_CODE_LIN_SIGSTKFLT -> "SIGSTKFLT"
    [] exception_code = MD_EXCEPTION_CODE_LIN_SIGCHLD -> "SIGCHLD"
    [] exception_code = MD_EXCEPTION_CODE_LIN_SIGCONT -> "SIGCONT"
    [] exception_code = MD_EXCEPTION_CODE_LIN_SIGSTOP -> "SIGSTOP"
    [] exception_code = MD_EXCEPTION_CODE_LIN_SIGTSTP -> "SIGTSTP"
    [] exception_code = MD_EXCEPTION_CODE_LIN_SIGTTIN -> "SIGTTIN"
    [] exception_code = MD_EXCEPTION_CODE_LIN_SIGTTOU -> "SIGTTOU"
    [] exception_code = MD_EXCEPTION_CODE_LIN_SIGURG -> "SIGURG"
    [] exception_code = MD_EXCEPTION_CODE_LIN_SIGXCPU -> "SIGXCPU"
    [] exception_code = MD_EXCEPTION_CODE_LIN_SIGXFSZ -> "SIGXFSZ"
    [] exception_code = MD_EXCEPTION_CODE_LIN_SIGVTALRM -> "SIGVTALRM"
    [] exception_code = MD_EXCEPTION_CODE_LIN_SIGPROF -> "SIGPROF"
    [] exception_code = MD_EXCEPTION_CODE_LIN_SIGWINCH -> "SIGWINCH"
    [] exception_code = MD_EXCEPTION_CODE_LIN_SIGIO -> "SIGIO"
    [] exception_code = MD_EXCEPTION_CODE_LIN_SIGPWR -> "SIGPWR"
    [] exception_code = MD_EXCEPTION_CODE_LIN_SIGSYS -> "SIGSYS"
    [] exception_code = MD_EXCEPTION_CODE_LIN_DUMP_REQUESTED -> "DUMP_REQUESTED"
    [] OTHER -> reason

\* case MD_OS_SOLARIS.
SolarisReason(exception_code, reason) ==
  CASE exception_code = MD_EXCEPTION_CODE_SOL_SIGHUP -> "SIGHUP"
    [] exception_code = MD_EXCEPTION_CODE_SOL_SIGINT -> "SIGINT"
    [] exception_code = MD_EXCEPTION_CODE_SOL_SIGQUIT -> "SIGQUIT"
    [] exception_code = MD_EXCEPTION_CODE_SOL_SIGILL -> "SIGILL"
    [] exception_code = MD_EXCEPTION_CODE_SOL_SIGTRAP -> "SIGTRAP"
    [] exception_code = MD_EXCEPTION_CODE_SOL_SIGIOT -> "SIGIOT | SIGABRT"
    [] exception_code = MD_EXCEPTION_CODE_SOL_SIGEMT -> "SIGEMT"
    [] exception_code = MD_EXCEPTION_CODE_SOL_SIGFPE -> "SIGFPE"
    [] exception_code = MD_EXCEPTION_CODE_SOL_SIGKILL -> "SIGKILL"
    [] exception_code = MD_EXCEPTION_CODE_SOL_SIGBUS -> "SIGBUS"
    [] exception_code = MD_EXCEPTION_CODE_SOL_SIGSEGV -> "SIGSEGV"
    [] exception_code = MD_EXCEPTION_CODE_SOL_SIGSYS -> "SIGSYS"
    [] exception_code = MD_EXCEPTION_CODE_SOL_SIGPIPE -> "SIGPIPE"
    [] exception_code = MD_EXCEPTION_CODE_SOL_SIGALRM -> "SIGALRM"
    [] exception_code = MD_EXCEPTION_CODE_SOL_SIGTERM -> "SIGTERM"
    [] exception_code = MD_EXCEPTION_CODE_SOL_SIGUSR1 -> "SIGUSR1"
    [] exception_code = MD_EXCEPTION_CODE_SOL_SIGUSR2 -> "SIGUSR2"
    [] exception_code = MD_EXCEPTION_CODE_SOL_SIGCLD -> "SIGCLD | SIGCHLD"
    [] exception_code = MD_EXCEPTION_CODE_SOL_SIGPWR -> "SIGPWR"
    [] exception_code = MD_EXCEPTION_CODE_SOL_SIGWINCH -> "SIGWINCH"
    [] exception_code = MD_EXCEPTION_CODE_SOL_SIGURG -> "SIGURG"
    [] exception_code = MD_EXCEPTION_CODE_SOL_SIGPOLL -> "SIGPOLL | SIGIO"
    [] exception_code = MD_EXCEPTION_CODE_SOL_SIGSTOP -> "SIGSTOP"
    [] exception_code = MD_EXCEPTION_CODE_SOL_SIGTSTP -> "SIGTSTP"
    [] exception_code = MD_EXCEPTION_CODE_SOL_SIGCONT -> "SIGCONT"
    [] exception_code = MD_EXCEPTION_CODE_SOL_SIGTTIN -> "SIGTTIN"
    [] exception_code = MD_EXCEPTION_CODE_SOL_SIGTTOU -> "SIGTTOU"
    [] exception_code = MD_EXCEPTION_CODE_SOL_SIGVTALRM -> "SIGVTALRM"
    [] exception_code = MD_EXCEPTION_CODE_SOL_SIGPROF -> "SIGPROF"
    [] exception_code = MD_EXCEPTION_CODE_SOL_SIGXCPU -> "SIGXCPU"
    [] exception_code = MD_EXCEPTION_CODE_SOL_SIGXFSZ -> "SIGXFSZ"
    [] exception_code = MD_EXCEPTION_CODE_SOL_SIGWAITING -> "SIGWAITING"
    [] exception_code = MD_EXCEPTION_CODE_SOL_SIGLWP -> "SIGLWP"
    [] exception_code = MD_EXCEPTION_CODE_SOL_SIGFREEZE -> "SIGFREEZE"
    [] exception_code = MD_EXCEPTION_CODE_SOL_SIGTHAW -> "SIGTHAW"
    [] exception_code = MD_EXCEPTION_CODE_SOL_SIGCANCEL -> "SIGCANCEL"
    [] exception_code = MD_EXCEPTION_CODE_SOL_SIGLOST -> "SIGLOST"
    [] exception_code = MD_EXCEPTION_CODE_SOL_SIGXRES -> "SIGXRES"
    [] exception_code = MD_EXCEPTION_CODE_SOL_SIGJVM1 -> "SIGJVM1"
    [] exception_code = MD_EXCEPTION_CODE_SOL_SIGJVM2 -> "SIGJVM2"
    [] OTHER -> reason

\* case MD_OS_PS3.
PS3Reason(exception_code, reason) ==
  CASE exception_code = MD_EXCEPTION_CODE_PS3_UNKNOWN -> "UNKNOWN"
    [] exception_code = MD_EXCEPTION_CODE_PS3_TRAP_EXCEP -> "TRAP_EXCEP"
    [] exception_code = MD_EXCEPTION_CODE_PS3_PRIV_INSTR -> "PRIV_INSTR"
    [] exception_code = MD_EXCEPTION_CODE_PS3_ILLEGAL_INSTR -> "ILLEGAL_INSTR"
    [] exception_code = MD_EXCEPTION_CODE_PS3_INSTR_STORAGE -> "INSTR_STORAGE"
    [] exception_code = MD_EXCEPTION_CODE_PS3_INSTR_SEGMENT -> "INSTR_SEGMENT"
    [] exception_code = MD_EXCEPTION_CODE_PS3_DATA_STORAGE -> "DATA_STORAGE"
    [] exception_code = MD_EXCEPTION_CODE_PS3_DATA_SEGMENT -> "DATA_SEGMENT"
    [] exception_code = MD_EXCEPTION_CODE_PS3_FLOAT_POINT -> "FLOAT_POINT"
    [] exception_code = MD_EXCEPTION_CODE_PS3_DABR_MATCH -> "DABR_MATCH"
    [] exception_code = MD_EXCEPTION_CODE_PS3_ALIGN_EXCEP -> "ALIGN_EXCEP"
    [] exception_code = MD_EXCEPTION_CODE_PS3_MEMORY_ACCESS -> "MEMORY_ACCESS"
    [] exception_code = MD_EXCEPTION_CODE_PS3_COPRO_ALIGN -> "COPRO_ALIGN"
    [] exception_code = MD_EXCEPTION_CODE_PS3_COPRO_INVALID_COM -> "COPRO_INVALID_COM"
    [] exception_code = MD_EXCEPTION_CODE_PS3_COPRO_ERR -> "COPRO_ERR"
    [] exception_code = MD_EXCEPTION_CODE_PS3_COPRO_FIR -> "COPRO_FIR"
    [] exception_code = MD_EXCEPTION_CODE_PS3_COPRO_DATA_SEGMENT -> "COPRO_DATA_SEGMENT"
    [] exception_code = MD_EXCEPTION_CODE_PS3_COPRO_DATA_STORAGE -> "COPRO_DATA_STORAGE"
    [] exception_code = MD_EXCEPTION_CODE_PS3_COPRO_STOP_INSTR -> "COPRO_STOP_INSTR"
    [] exception_code = MD_EXCEPTION_CODE_PS3_COPRO_HALT_INSTR -> "COPRO_HALT_INSTR"
    [] exception_code = MD_EXCEPTION_CODE_PS3_COPRO_HALTINST_UNKNOWN -> "COPRO_HALTINSTR_UNKNOWN"
    [] exception_code = MD_EXCEPTION_CODE_PS3_COPRO_MEMORY_ACCESS -> "COPRO_MEMORY_ACCESS"
    [] exception_code = MD_EXCEPTION_CODE_PS3_GRAPHIC -> "GRAPHIC"
    [] OTHER -> reason


\* ------------------------------------------------- GetCrashReason

\* The switch on raw_system_info->platform_id.
PlatformReason(d, flags_string, reason) ==
  CASE d.platform_id = MD_OS_FUCHSIA ->
         FuchsiaReason(d.exception_code, flags_string, reason)
    [] d.platform_id = MD_OS_MAC_OS_X \/ d.platform_id = MD_OS_IOS ->
         MacReason(d.exception_code, d.exception_flags, d.processor_architecture,
                   flags_string, reason)
    [] d.platform_id = MD_OS_WIN32_NT \/ d.platform_id = MD_OS_WIN32_WINDOWS ->
         WindowsReason(d.exception_code, d.number_parameters,
                       d.exception_information, reason)
    [] d.platform_id = MD_OS_ANDROID \/ d.platform_id = MD_OS_LINUX ->
         LinuxReason(d.exception_code, d.exception_flags, flags_string, reason)
    [] d.platform_id = MD_OS_SOLARIS -> SolarisReason(d.exception_code, reason)
    [] d.platform_id = MD_OS_PS3 -> PS3Reason(d.exception_code, reason)
    [] OTHER -> reason

\* *address as the platform switch leaves it.
PlatformAddress(d) ==
  IF d.platform_id = MD_OS_WIN32_NT \/ d.platform_id = MD_OS_WIN32_WINDOWS
  THEN WindowsAddress(d.exception_code, d.number_parameters,
                      d.exception_information, d.exception_address)
  ELSE d.exception_address

\* MinidumpProcessor::GetCrashReason(dump, &address, enable_objdump = false).
\* d is what the function reads of the dump: whether GetException() and
\* exception() are non-null, the exception record, whether GetSystemInfo() is
\* non-null, and the platform and processor of the system info.  The result is
\* the returned string and the value left in *address (address on entry).
GetCrashReason(d, address) ==
  IF ~d.exception \/ ~d.raw_exception
  THEN [reason |-> "", address |-> address]
  ELSE LET flags_string == FormatHex08(d.exception_flags)
           reason == DefaultReason(d.exception_code, flags_string)
       IN IF ~d.system_info
          THEN [reason |-> reason, address |-> d.exception_address]
          ELSE [reason |-> PlatformReason(d, flags_string, reason),
                address |-> GetAddressForArchitecture(d.processor_architecture,
                                                      PlatformAddress(d))]

\* ------------------------------------------------- Process: the minidump oracle

\* What MinidumpBreakpadInfo yields: GetBreakpadInfo() non-null, and the two
\* optional thread ids.
BreakpadInfo(present, has_dump, dump_id, has_req, req_id) ==
  [present |-> present,
   has_dump_thread |-> has_dump, dump_thread_id |-> dump_id,
   has_requesting_thread |-> has_req, requesting_thread_id |-> req_id]

BreakpadInfos ==
  {BreakpadInfo(FALSE, FALSE, 0, FALSE, 0)}
    \cup {BreakpadInfo(TRUE, hd, IF hd THEN 1 ELSE 0, r # 0, r) :
            hd \in BOOLEAN, r \in {0, 1, 2}}

\* What MinidumpException yields: GetException() non-null, GetThreadID(),
\* GetContext() non-null, and the raw exception record.
Exception(present, tid_ok, tid, context) ==
  [present |-> present, thread_id_ok |-> tid_ok, thread_id |-> tid,
   context |-> context,
   exception_code |-> MD_EXCEPTION_CODE_LIN_SIGSEGV,
   exception_flags |-> MD_EXCEPTION_FLAG_LIN_SEGV_MAPERR,
   exception_address |-> UInt64(1, 4096),
   exception_record |-> UInt64(0, 0),
   number_parameters |-> 1,
   exception_information |-> <<UInt64(1, 4096), UInt64(0, 0), UInt64(0, 0)>>]

Exceptions ==
  {Exception(FALSE, FALSE, 0, FALSE),
   Exception(TRUE, FALSE, 0, TRUE),
   Exception(TRUE, TRUE, 2, TRUE),
   Exception(TRUE, TRUE, 2, FALSE)}

\* One entry of the thread list: GetThreadAtIndex() non-null, GetThreadID(),
\* GetContext() non-null, a stack memory region found (lines 327-335), and
\* whether Walk() on this thread's stack returns true.
Thread(ok, id_ok, id, context, memory, walk_ok) ==
  [ok |-> ok, thread_id_ok |-> id_ok, thread_id |-> id,
   context |-> context, memory |-> memory, walk_ok |-> walk_ok]

Threads ==
  {Thread(FALSE, FALSE, 0, FALSE, FALSE, TRUE),
   Thread(TRUE, FALSE, 0, TRUE, TRUE, TRUE),
   Thread(TRUE, TRUE, 1, TRUE, TRUE, TRUE),
   Thread(TRUE, TRUE, 2, TRUE, TRUE, TRUE),
   Thread(TRUE, TRUE, 2, FALSE, FALSE, TRUE),
   Thread(TRUE, TRUE, 2, TRUE, TRUE, FALSE),
   Thread(TRUE, TRUE, 3, TRUE, TRUE, TRUE),
   Thread(TRUE, TRUE, 3, TRUE, TRUE, FALSE)}

\* One entry of the thread-name list: GetThreadNameAtIndex() non-null,
\* GetThreadID(), GetThreadName().
ThreadName(ok, id_ok, id, name) ==
  [ok |-> ok, thread_id_ok |-> id_ok, thread_id |-> id, name |-> name]

\* GetThreadNameList(): absent, or one of three one-entry lists.
ThreadNameLists ==
  {[present |-> FALSE, names |-> <<>>],
   [present |-> TRUE, names |-> <<ThreadName(FALSE, FALSE, 0, "")>>],
   [present |-> TRUE, names |-> <<ThreadName(TRUE, FALSE, 0, "")>>],
   [present |-> TRUE, names |-> <<ThreadName(TRUE, TRUE, 2, "worker")>>]}

\* A minidump as the typed-record oracle Process queries.
Dump(header, thread_list, threads, breakpad_info, exception, thread_names) ==
  [header |-> header,
   time_date_stamp |-> 1700000000,
   system_info |-> TRUE,
   platform_id |-> MD_OS_LINUX,
   processor_architecture |-> MD_CPU_ARCHITECTURE_AMD64,
   breakpad_info |-> breakpad_info,
   exception |-> exception,
   assertion |-> "",
   module_list |-> TRUE,
   unloaded_module_list |-> TRUE,
   thread_list |-> thread_list,
   threads |-> threads,
   thread_names |-> thread_names]

\* The dumps Process is run on: every thread list of up to MaxThreads threads,
\* a dump without thread list, and dumps without header.
Dumps ==
  {Dump(TRUE, TRUE, t, b, e, n) :
     t \in SeqUpTo(Threads, MaxThreads), b \in BreakpadInfos,
     e \in Exceptions, n \in ThreadNameLists}
  \cup {Dump(h, l, t, b, e, n) :
          h \in BOOLEAN, l \in BOOLEAN, t \in SeqUpTo(Threads, 1),
          b \in BreakpadInfos, e \in Exceptions, n \in {[present |-> FALSE, names |-> <<>>]}}

\* MinidumpProcessor::max_thread_count_: -1 is "no limit".
MaxThreadCounts == {-1, 0, 1, 2}

\* ------------------------------------------------- Process: the process state

\* A CallStack as Process leaves it in threads_: its tid, which context its
\* stackwalker was built from ("exception", "thread", or "null" when
\* GetContext() gave none), and whether Walk() ran on it.
CallStack(tid, context, walked) ==
  [tid |-> tid, context |-> context, walked |-> walked]

\* The ExceptionRecord of a process state.
ExceptionRecord(code, flags, nested, address, parameters) ==
  [code |-> code, flags |-> flags, nested_exception_record_address |-> nested,
   address |-> address, parameters |-> parameters]

\* The ProcessState after ProcessState::Clear().
ClearedState ==
  [time_date_stamp_ |-> 0,
   process_create_time_ |-> 0,
   crashed_ |-> FALSE,
   crash_reason_ |-> "",
   crash_address_ |-> UInt64(0, 0),
   exception_record_ |-> ExceptionRecord(0, 0, UInt64(0, 0), UInt64(0, 0), <<>>),
   assertion_ |-> "",
   requesting_thread_ |-> -1,
   original_thread_count_ |-> 0,
   threads_ |-> <<>>,
   thread_memory_regions_ |-> <<>>,
   thread_names_ |-> <<>>,
   system_info_ |-> "",
   modules_ |-> "NULL",
   unloaded_modules_ |-> "NULL",
   exploitability_ |-> "EXPLOITABILITY_NOT_ANALYZED"]

\* A ProcessState an earlier call of Process filled in, handed in again.
StaleState ==
  [time_date_stamp_ |-> 1600000000,
   process_create_time_ |-> 1599999999,
   crashed_ |-> TRUE,
   crash_reason_ |-> "SIGABRT",
   crash_address_ |-> UInt64(0, 8192),
   exception_record_ |-> ExceptionRecord(6, 0, UInt64(0, 0), UInt64(0, 8192), <<>>),
   assertion_ |-> "",
   requesting_thread_ |-> 0,
   original_thread_count_ |-> 1,
   threads_ |-> <<CallStack(9, "exception", TRUE)>>,
   thread_memory_regions_ |-> <<TRUE>>,
   thread_names_ |-> <<"main">>,
   system_info_ |-> "Linux",
   modules_ |-> "copy of the module list",
   unloaded_modules_ |-> "copy of the unloaded module list",
   exploitability_ |-> "EXPLOITABILITY_NOT_ANALYZED"]

\* MinidumpProcessor::enable_exploitability_ as the constructors leave it.
enable_exploitability_ == FALSE

\* The locals of Process before line 113.
InitialLocals ==
  [dump_thread_id |-> 0, has_dump_thread |-> FALSE,
   requesting_thread_id |-> 0, has_requesting_thread |-> FALSE,
   exception |-> FALSE,
   interrupted |-> FALSE, found_requesting_thread |-> FALSE,
   thread_count |-> 0, thread_index |-> 0,
   thread_id_to_name |-> <<>>]

\* What GetCrashReason reads of a dump.
CrashView(d) ==
  [exception |-> d.exception.present,
   raw_exception |-> d.exception.present,
   exception_code |-> d.exception.exception_code,
   exception_flags |-> d.exception.exception_flags,
   exception_address |-> d.exception.exception_address,
   number_parameters |-> d.exception.number_parameters,
   exception_information |-> d.exception.exception_information,
   system_info |-> d.system_info,
   platform_id |-> d.platform_id,
   processor_architecture |-> d.processor_architecture]

\* MD_EXCEPTION_MAXIMUM_PARAMETERS of minidump_format.h.
MD_EXCEPTION_MAXIMUM_PARAMETERS == 15

\* ------------------------------------------------- Process: the steps of its body


\* A Process that does not look at the header.
HeaderNeverMissing(d) == FALSE

\* Line 107: if (!header).
HeaderMissing(d) == ~d.header

\* Lines 113-160, the exception part: crashed_, the requesting thread id, the
\* crash reason and the exception record.
WithException(d, ps) ==
  IF ~d.exception.present THEN ps
  ELSE LET cr == GetCrashReason(CrashView(d), ps.crash_address_)
           num_parameters == Min(d.exception.number_parameters,
                                 MD_EXCEPTION_MAXIMUM_PARAMETERS)
       IN [ps EXCEPT
             !.crashed_ = TRUE,
             !.crash_reason_ = cr.reason,
             !.crash_address_ = cr.address,
             !.exception_record_ =
               ExceptionRecord(d.exception.exception_code,
                               d.exception.exception_flags,
                               d.exception.exception_record,
                               cr.address,
                               SubSeq(d.exception.exception_information,
                                      1, num_parameters))]

\* A Process that keeps the requesting thread of BreakpadInfo when the
\* exception gives none.
HasEitherRequestingThread(had_requesting_thread, thread_id_ok) ==
  had_requesting_thread \/ thread_id_ok

\* Line 134: has_requesting_thread = exception->GetThreadID(...).
HasRequestingThread(had_requesting_thread, thread_id_ok) == thread_id_ok

\* Lines 119-135: the dump thread and the requesting thread.  The exception's
\* GetThreadID() overwrites what BreakpadInfo said, also when it fails.
WithThreadIds(d, l) ==
  LET b == d.breakpad_info
      l1 == IF b.present
            THEN [l EXCEPT !.has_dump_thread = b.has_dump_thread,
                           !.dump_thread_id = b.dump_thread_id,
                           !.has_requesting_thread = b.has_requesting_thread,
                           !.requesting_thread_id = b.requesting_thread_id]
            ELSE l
  IN IF d.exception.present
     THEN [l1 EXCEPT !.exception = TRUE,
                     !.has_requesting_thread =
                       HasRequestingThread(@, d.exception.thread_id_ok),
                     !.requesting_thread_id =
                       IF d.exception.thread_id_ok
                       THEN d.exception.thread_id ELSE 0]
     ELSE l1

\* Lines 111-117 and 162-190: what is copied into the state besides the exception.
WithStreams(d, ps) ==
  [ps EXCEPT
     !.time_date_stamp_ = d.time_date_stamp,
     !.system_info_ = IF d.system_info THEN "Linux" ELSE ps.system_info_,
     !.assertion_ = d.assertion,
     !.modules_ = IF d.module_list THEN "copy of the module list" ELSE ps.modules_,
     !.unloaded_modules_ = IF d.unloaded_module_list
                           THEN "copy of the unloaded module list"
                           ELSE ps.unloaded_modules_]


\* A Process that goes on without a thread list.
ThreadListNeverMissing(d) == FALSE

\* Line 197: if (!threads).
ThreadListMissing(d) == ~d.thread_list

\* Lines 221-241: the first entry of the name list that cannot be read, if any.
BadThreadName(names) ==
  \E i \in 1..Len(names) : ~names[i].ok \/ ~names[i].thread_id_ok

\* Lines 240-241: std::map::insert keeps the entry already there.  The map is
\* kept as the sequence of its (id, name) pairs in insertion order.
RECURSIVE InsertNames(_, _, _)
InsertNames(map, names, i) ==
  IF i > Len(names) THEN map
  ELSE IF \E k \in 1..Len(map) : map[k][1] = names[i].thread_id
  THEN InsertNames(map, names, i + 1)
  ELSE InsertNames(Append(map, <<names[i].thread_id, names[i].name>>),
                   names, i + 1)

\* Lines 265-269: thread_id_to_name.find(thread_id), "" when absent.
FindThreadName(map, thread_id) ==
  IF \E k \in 1..Len(map) : map[k][1] = thread_id
  THEN map[CHOOSE k \in 1..Len(map) : map[k][1] = thread_id][2]
  ELSE ""


\* A Process that does not skip the thread that wrote the dump.
DumpThreadNotSkipped(l, thread_id) == FALSE

\* Line 280: the thread that wrote the dump.
IsDumpThread(l, thread_id) == l.has_dump_thread /\ thread_id = l.dump_thread_id


\* A Process that skips the dump thread without counting it out.
SkipDumpThreadUncounted(n) == n

\* Line 281: process_state->original_thread_count_--.
SkipDumpThreadCount(n) == n - 1

\* Line 287: the requesting thread.
IsRequestingThread(l, thread_id) ==
  l.has_requesting_thread /\ thread_id = l.requesting_thread_id


\* A Process that does not remember having seen the requesting thread.
DuplicateRequestingMissed(l) == FALSE

\* Line 288: a requesting thread was already seen.
DuplicateRequesting(l) == l.found_requesting_thread

\* A Process that takes the position in the thread list of the minidump.
RequestingThreadInList(threads_, thread_index) == thread_index

\* Line 301: process_state->requesting_thread_ = process_state->threads_.size().
RequestingThread(threads_, thread_index) == Len(threads_)

\* A Process that cuts the loop at max_thread_count alone.
CutAtMaxThreadCount(thread_count, requesting_thread, max_thread_count) ==
  IF max_thread_count >= 0 THEN Min(thread_count, max_thread_count)
  ELSE thread_count

\* Lines 302-308: the thread count once the requesting thread is found.
CutThreadCount(thread_count, requesting_thread, max_thread_count) ==
  IF max_thread_count >= 0
  THEN Min(thread_count, Max(requesting_thread + 1, max_thread_count))
  ELSE thread_count


\* A Process that always walks from the thread's own context.
WalkContextOfThread(is_requesting, crashed, exception_context, thread_context) ==
  IF thread_context THEN "thread" ELSE "null"

\* Lines 285 and 312-321: the context the stackwalker is built from.
WalkContext(is_requesting, crashed, exception_context, thread_context) ==
  IF is_requesting /\ crashed /\ exception_context THEN "exception"
  ELSE IF thread_context THEN "thread"
  ELSE "null"

\* Lines 347-368: StackwalkerForCPU gives no stackwalker without a context;
\* with one, Walk() fills the stack and may report an interrupt.
WalkedStack(thread_id, context) == CallStack(thread_id, context, context # "null")


\* A Process that drops the result of Walk().
InterruptedDropped(interrupted, context, walk_ok) == interrupted

Interrupted(interrupted, context, walk_ok) ==
  interrupted \/ (context # "null" /\ ~walk_ok)

\* Lines 376-408: the result once the loop is over.
FinishResult(l) ==
  IF l.interrupted THEN "PROCESS_SYMBOL_SUPPLIER_INTERRUPTED" ELSE "PROCESS_OK"

VARIABLES
  \* --- MinidumpProcessor::Process
  dump,               \* the Minidump handed to Process (the typed-record oracle)
  max_thread_count_,  \* MinidumpProcessor::max_thread_count_
  process_state,      \* the ProcessState being filled in
  loc,                \* the locals of Process that live across statements
  pc,                 \* the position of Process in its body
  result,             \* the ProcessResult returned ("NONE" while running)
  reads,              \* the Minidump accessors Process has called so far
  \* --- MinidumpProcessor::GetCrashReason called on its own
  crash_dump,         \* what the dump yields to GetCrashReason
  crash_address,      \* the caller's address variable
  crash_reason,       \* the returned string ("NOT CALLED" before the call)
  crash_pc,           \* "call" before the call, "done" after it
  \* --- Module, as module_unittest.cc drives it
  module,             \* the constructor's arguments
  functions_,         \* Module::functions_
  externs_,           \* Module::externs_
  contents,           \* what the last Write put on the stream
  history,            \* the calls kept for the claims, oldest first
  files_,             \* Module::files_
  stack_frame_entries_, \* Module::stack_frame_entries_
  load_address_,      \* Module::load_address_
  address_ranges_,    \* Module::address_ranges_
  written,            \* Write has been called
  \* --- CompilationUnit, as dwarf2reader_die_unittest.cc drives it
  unit,               \* the parameters the test built the unit from
  info_contents,      \* the bytes of the .debug_info section
  handler_calls,      \* the calls the Dwarf2Handler received, oldest first
  start_returned,     \* what Start returned (-1 before the call)
  \* --- RangeListReader, as dwarf2reader_die_unittest.cc drives it
  cu_info,            \* RangeListReader::CURangesInfo
  range_handler_calls, \* the calls the RangeListHandler received, oldest first
  read_ranges,        \* the calls of ReadRanges made, oldest first
  \* --- Stackwalker::Walk on an arm64 thread
  walk_input,         \* what the thread's context, memory and modules yield
  frames,             \* the frames of the call stack, the context frame first
  walk_pc,            \* "context", "caller" or "done"
  \* --- IsCanonicalAddress called on its own
  canonical_address,  \* the address handed in
  canonical_returned  \* what it returned ("NOT CALLED" before the call)

procVars == <<dump, max_thread_count_, process_state, loc, pc, result, reads>>
reasonVars == <<crash_dump, crash_address, crash_reason, crash_pc>>
moduleVars == <<module, functions_, externs_, contents, history, files_,
                stack_frame_entries_, load_address_, address_ranges_, written>>
dwarfVars == <<unit, info_contents, handler_calls, start_returned>>
rangeVars == <<cu_info, range_handler_calls, read_ranges>>
walkVars == <<walk_input, frames, walk_pc>>
canonicalVars == <<canonical_address, canonical_returned>>
restVars == <<rangeVars, walkVars, canonicalVars>>
vars == <<procVars, reasonVars, moduleVars, dwarfVars, restVars>>

\* No RangeListReader has been constructed.
RangeIdle ==
  /\ cu_info = <<>>
  /\ range_handler_calls = <<>>
  /\ read_ranges = <<>>

\* No Stackwalker has been constructed.
WalkIdle ==
  /\ walk_input = <<>>
  /\ frames = <<>>
  /\ walk_pc = "idle"

\* IsCanonicalAddress is not called.
CanonicalIdle ==
  /\ canonical_address = <<0, 0>>
  /\ canonical_returned = "NOT CALLED"

\* The parts the tests of CompilationUnit do not touch are idle.
RestIdle == RangeIdle /\ WalkIdle /\ CanonicalIdle

\* No CompilationUnit has been constructed.
DwarfIdle ==
  /\ unit = <<>>
  /\ info_contents = <<>>
  /\ handler_calls = <<>>
  /\ start_returned = -1

\* No Module has been constructed.
ModuleIdle ==
  /\ module = <<>>
  /\ functions_ = {}
  /\ externs_ = {}
  /\ contents = <<>>
  /\ history = <<>>
  /\ files_ = {}
  /\ stack_frame_entries_ = <<>>
  /\ load_address_ = 0
  /\ address_ranges_ = <<>>
  /\ written = FALSE

\* ------------------------------------------------- Process: the actions

\* GetCrashReason is not running.
ReasonIdle ==
  /\ crash_dump = <<>>
  /\ crash_address = UInt64(0, 0)
  /\ crash_reason = "NOT CALLED"
  /\ crash_pc = "idle"

\* Process is about to be called on a dump, with a state an earlier call left.
ProcessInit ==
  /\ dump \in Dumps
  /\ max_thread_count_ \in MaxThreadCounts
  /\ process_state = StaleState
  /\ loc = InitialLocals
  /\ pc = "Entry"
  /\ result = "NONE"
  /\ reads = {}

Return(r) ==
  /\ pc' = "Done"
  /\ result' = r

\* Lines 99-110: Clear() and the header check.
ProcessEntry ==
  /\ pc = "Entry"
  /\ process_state' = ClearedState
  /\ reads' = reads \cup {"header"}
  /\ IF HeaderMissing(dump)
     THEN Return("PROCESS_ERROR_NO_MINIDUMP_HEADER")
     ELSE pc' = "Streams" /\ result' = result
  /\ UNCHANGED <<dump, max_thread_count_, loc, reasonVars, moduleVars, dwarfVars, restVars>>

\* Lines 111-216: everything up to the thread-name list.
ProcessStreams ==
  /\ pc = "Streams"
  /\ reads' = reads \cup {"GetMiscInfo", "GetSystemInfo", "GetBreakpadInfo",
                          "GetException", "GetAssertion", "GetModuleList",
                          "GetUnloadedModuleList", "GetMemoryList", "GetThreadList"}
  /\ IF ThreadListMissing(dump)
     THEN /\ process_state' = WithException(dump, WithStreams(dump, process_state))
          /\ loc' = WithThreadIds(dump, loc)
          /\ Return("PROCESS_ERROR_NO_THREAD_LIST")
     ELSE /\ process_state' =
               [WithException(dump, WithStreams(dump, process_state))
                  EXCEPT !.original_thread_count_ = Len(dump.threads)]
          /\ loc' = [WithThreadIds(dump, loc)
                       EXCEPT !.thread_count = Len(dump.threads)]
          /\ pc' = "ThreadNames"
          /\ result' = result
  /\ UNCHANGED <<dump, max_thread_count_, reasonVars, moduleVars, dwarfVars, restVars>>

\* Lines 218-243: the thread-name list, read into thread_id_to_name.
ProcessThreadNames ==
  /\ pc = "ThreadNames"
  /\ reads' = reads \cup {"GetThreadNameList"}
  /\ IF dump.thread_names.present /\ BadThreadName(dump.thread_names.names)
     THEN /\ Return("PROCESS_ERROR_GETTING_THREAD_NAME")
          /\ loc' = loc
     ELSE /\ loc' = [loc EXCEPT !.thread_id_to_name =
                       IF dump.thread_names.present
                       THEN InsertNames(<<>>, dump.thread_names.names, 1)
                       ELSE <<>>]
          /\ pc' = "Threads"
          /\ result' = result
  /\ UNCHANGED <<dump, max_thread_count_, process_state, reasonVars, moduleVars, dwarfVars, restVars>>

\* Lines 245-374: one iteration of the thread loop.
ProcessThread ==
  /\ pc = "Threads"
  /\ loc.thread_index < loc.thread_count
  /\ reads' = reads \cup {"GetThreadAtIndex"}
  /\ LET thread == dump.threads[loc.thread_index + 1]
         thread_id == thread.thread_id
         thread_name == FindThreadName(loc.thread_id_to_name, thread_id)
         is_requesting == IsRequestingThread(loc, thread_id)
         context == WalkContext(is_requesting, process_state.crashed_,
                                dump.exception.context, thread.context)
     IN IF ~thread.ok
        THEN /\ Return("PROCESS_ERROR_GETTING_THREAD")
             /\ UNCHANGED <<process_state, loc>>
        ELSE IF ~thread.thread_id_ok
        THEN /\ Return("PROCESS_ERROR_GETTING_THREAD_ID")
             /\ UNCHANGED <<process_state, loc>>
        ELSE IF IsDumpThread(loc, thread_id)
        THEN /\ process_state' =
                  [process_state EXCEPT !.original_thread_count_ =
                     SkipDumpThreadCount(process_state.original_thread_count_)]
             /\ loc' = [loc EXCEPT !.thread_index = loc.thread_index + 1]
             /\ UNCHANGED <<pc, result>>
        ELSE IF is_requesting /\ DuplicateRequesting(loc)
        THEN /\ Return("PROCESS_ERROR_DUPLICATE_REQUESTING_THREADS")
             /\ UNCHANGED <<process_state, loc>>
        ELSE /\ process_state' =
                  [process_state EXCEPT
                     !.requesting_thread_ =
                       IF is_requesting
                       THEN RequestingThread(process_state.threads_, loc.thread_index)
                       ELSE @,
                     !.threads_ = Append(@, WalkedStack(thread_id, context)),
                     !.thread_memory_regions_ = Append(@, thread.memory),
                     !.thread_names_ = Append(@, thread_name)]
             /\ loc' =
                  [loc EXCEPT
                     !.thread_count =
                       IF is_requesting
                       THEN CutThreadCount(@, Len(process_state.threads_),
                                           max_thread_count_)
                       ELSE @,
                     !.found_requesting_thread = @ \/ is_requesting,
                     !.interrupted = Interrupted(@, context, thread.walk_ok),
                     !.thread_index = loc.thread_index + 1]
             /\ UNCHANGED <<pc, result>>
  /\ UNCHANGED <<dump, max_thread_count_, reasonVars, moduleVars, dwarfVars, restVars>>

\* Lines 376-408: after the loop.
ProcessFinish ==
  /\ pc = "Threads"
  /\ loc.thread_index >= loc.thread_count
  /\ Return(FinishResult(loc))
  /\ process_state' =
       IF loc.interrupted THEN process_state
       ELSE [process_state EXCEPT
               !.requesting_thread_ =
                 IF loc.has_requesting_thread /\ ~loc.found_requesting_thread
                 THEN -1 ELSE @,
               !.exploitability_ =
                 IF enable_exploitability_ THEN "rated by the exploitability engine"
                 ELSE "EXPLOITABILITY_NOT_ANALYZED"]
  /\ UNCHANGED <<dump, max_thread_count_, loc, reads, reasonVars, moduleVars, dwarfVars, restVars>>

Init == ProcessInit /\ ReasonIdle /\ ModuleIdle /\ DwarfIdle /\ RestIdle

Next ==
  \/ ProcessEntry
  \/ ProcessStreams
  \/ ProcessThreadNames
  \/ ProcessThread
  \/ ProcessFinish

Spec == Init /\ [][Next]_vars

\* ------------------------------------------------- Process: the claims

\* The thread-list entries whose iteration of the loop has run to its end
\* (pushed or skipped): an iteration that returns leaves thread_index alone.
Visited == 1..loc.thread_index

\* The thread is the one BreakpadInfo names as the writer of the dump.
WriterThread(t) ==
  /\ dump.breakpad_info.present
  /\ dump.breakpad_info.has_dump_thread
  /\ t.thread_id = dump.breakpad_info.dump_thread_id

\* The results with which Process leaves the thread loop early.
StructuralErrors ==
  {"PROCESS_ERROR_GETTING_THREAD", "PROCESS_ERROR_GETTING_THREAD_ID",
   "PROCESS_ERROR_DUPLICATE_REQUESTING_THREADS"}

\* C1: on a dump without header Process reads nothing but the header and
\* returns PROCESS_ERROR_NO_MINIDUMP_HEADER with the state as Clear() left it.
C1_NoHeader ==
  ~dump.header =>
    /\ pc \in {"Entry", "Done"}
    /\ reads \subseteq {"header"}
    /\ pc = "Done" =>
         /\ result = "PROCESS_ERROR_NO_MINIDUMP_HEADER"
         /\ process_state = ClearedState

\* Process has returned on a headerless dump that holds an exception stream
\* and a thread, handed a state an earlier call had filled in.
C1_Witness ==
  /\ pc = "Done"
  /\ ~dump.header
  /\ dump.exception.present
  /\ dump.thread_list /\ Len(dump.threads) = 1
  /\ result = "PROCESS_ERROR_NO_MINIDUMP_HEADER"

\* C2: with a header but no thread list Process returns
\* PROCESS_ERROR_NO_THREAD_LIST; the time stamp, the system info, crashed_, the
\* crash reason, the exception record, the assertion and the module copies
\* are in the state, and no thread is.
C2_NoThreadList ==
  (pc = "Done" /\ dump.header /\ ~dump.thread_list) =>
    /\ result = "PROCESS_ERROR_NO_THREAD_LIST"
    /\ process_state.time_date_stamp_ = dump.time_date_stamp
    /\ process_state.system_info_ = "Linux"
    /\ process_state.crashed_ = dump.exception.present
    /\ process_state.crash_reason_ =
         GetCrashReason(CrashView(dump), UInt64(0, 0)).reason
    /\ dump.exception.present =>
         /\ process_state.crash_reason_ # ""
         /\ process_state.exception_record_.code = dump.exception.exception_code
         /\ process_state.exception_record_.flags = dump.exception.exception_flags
         /\ process_state.exception_record_.address = dump.exception.exception_address
         /\ Len(process_state.exception_record_.parameters) = 1
    /\ process_state.assertion_ = dump.assertion
    /\ process_state.modules_ = "copy of the module list"
    /\ process_state.unloaded_modules_ = "copy of the unloaded module list"
    /\ process_state.threads_ = <<>>
    /\ process_state.thread_memory_regions_ = <<>>
    /\ process_state.thread_names_ = <<>>

\* Process has returned on a crashed dump with a header and no thread list.
C2_Witness ==
  /\ pc = "Done"
  /\ dump.header /\ ~dump.thread_list
  /\ dump.exception.present
  /\ process_state.crashed_
  /\ result = "PROCESS_ERROR_NO_THREAD_LIST"

\* Walk() fails on this thread: it is read, not skipped, and its walk is
\* interrupted.
WalkFails(t) == t.ok /\ t.thread_id_ok /\ ~WriterThread(t) /\ ~t.walk_ok

\* C3: once the loop has been through a thread whose Walk() failed, that
\* thread's call stack is in threads_, one stack is there for every thread the
\* loop went through and did not skip, and Process returns
\* PROCESS_SYMBOL_SUPPLIER_INTERRUPTED, after the loop is over, unless a later
\* thread makes it return a structural error.
C3_WalkFailureContinues ==
  (pc \in {"Threads", "Done"} /\ \E k \in Visited : WalkFails(dump.threads[k])) =>
    /\ \A k \in Visited :
         WalkFails(dump.threads[k]) =>
           \E j \in 1..Len(process_state.threads_) :
             process_state.threads_[j].tid = dump.threads[k].thread_id
    /\ Len(process_state.threads_) =
         Cardinality({k \in Visited : ~WriterThread(dump.threads[k])})
    /\ pc = "Done" =>
         /\ result \in {"PROCESS_SYMBOL_SUPPLIER_INTERRUPTED"} \cup StructuralErrors
         /\ result = "PROCESS_SYMBOL_SUPPLIER_INTERRUPTED"
              <=> loc.thread_index >= loc.thread_count

\* The first of two threads failed its walk, the second was walked all the
\* same, and Process returned PROCESS_SYMBOL_SUPPLIER_INTERRUPTED.
C3_Witness ==
  /\ pc = "Done"
  /\ Len(dump.threads) = 2
  /\ WalkFails(dump.threads[1])
  /\ dump.threads[2].walk_ok
  /\ Len(process_state.threads_) = 2
  /\ result = "PROCESS_SYMBOL_SUPPLIER_INTERRUPTED"

\* The thread-list positions of the threads that carry the requesting thread id.
RequestingPositions ==
  {k \in 1..Len(dump.threads) :
     dump.threads[k].thread_id = loc.requesting_thread_id}

\* Every thread and thread id of the list can be read, and so can the names.
AllReadable ==
  /\ \A k \in 1..Len(dump.threads) :
       dump.threads[k].ok /\ dump.threads[k].thread_id_ok
  /\ ~(dump.thread_names.present /\ BadThreadName(dump.thread_names.names))

\* Process ran its thread loop on a list in which more than one thread, none
\* of them the dump-writer thread, carries the requesting thread id.
TwoRequestingThreads ==
  /\ pc = "Done"
  /\ dump.header /\ dump.thread_list
  /\ loc.has_requesting_thread
  /\ Cardinality(RequestingPositions) > 1
  /\ \A k \in RequestingPositions : ~WriterThread(dump.threads[k])
  /\ AllReadable

\* C4 as stated: with two threads carrying the requesting thread id Process
\* returns PROCESS_ERROR_DUPLICATE_REQUESTING_THREADS, whatever
\* max_thread_count is.
C4_Original ==
  TwoRequestingThreads => result = "PROCESS_ERROR_DUPLICATE_REQUESTING_THREADS"

\* The first and the second thread-list position with the requesting id.
FirstRequesting == CHOOSE k \in RequestingPositions :
                     \A m \in RequestingPositions : k <= m
SecondRequesting == CHOOSE k \in RequestingPositions \ {FirstRequesting} :
                      \A m \in RequestingPositions \ {FirstRequesting} : k <= m

\* The number of threads the loop looks at once it has found the first
\* requesting thread: all of them without a limit, else the larger of the
\* limit and the requesting thread's index in threads_ plus one.
LoopLimit ==
  LET processed_before ==
        Cardinality({k \in 1..(FirstRequesting - 1) : ~WriterThread(dump.threads[k])})
  IN IF max_thread_count_ < 0 THEN Len(dump.threads)
     ELSE IF max_thread_count_ > processed_before + 1 THEN max_thread_count_
     ELSE processed_before + 1

\* C4, amended: Process returns PROCESS_ERROR_DUPLICATE_REQUESTING_THREADS
\* exactly when the second thread with the requesting id lies within the
\* threads the loop looks at; a non-negative max_thread_count that ends the
\* loop before it makes Process return PROCESS_OK or
\* PROCESS_SYMBOL_SUPPLIER_INTERRUPTED instead.
C4_DuplicateWithinLimit ==
  TwoRequestingThreads =>
    /\ result = "PROCESS_ERROR_DUPLICATE_REQUESTING_THREADS"
         <=> SecondRequesting <= LoopLimit
    /\ result \in {"PROCESS_ERROR_DUPLICATE_REQUESTING_THREADS", "PROCESS_OK",
                   "PROCESS_SYMBOL_SUPPLIER_INTERRUPTED"}

\* Two threads carry the requesting id, max_thread_count is 2, and Process
\* returned the duplicate error.
C4_Witness ==
  /\ TwoRequestingThreads
  /\ max_thread_count_ = 2
  /\ result = "PROCESS_ERROR_DUPLICATE_REQUESTING_THREADS"

\* A requesting thread id was indicated and no thread that Process keeps
\* carries it: it is not in the list, or it is the dump-writer thread.
RequestingThreadNotProcessed ==
  /\ dump.header /\ dump.thread_list
  /\ pc \in {"Threads", "Done"}
  /\ loc.has_requesting_thread
  /\ \A k \in RequestingPositions : WriterThread(dump.threads[k])

\* C5: when the requesting thread is indicated and not among the processed
\* threads, requesting_thread_ is -1 throughout, and Process returns
\* PROCESS_OK when every thread is readable and no walk is interrupted.
C5_RequestingThreadAbsent ==
  RequestingThreadNotProcessed =>
    /\ process_state.requesting_thread_ = -1
    /\ (pc = "Done" /\ AllReadable
        /\ \A k \in 1..Len(dump.threads) : ~WalkFails(dump.threads[k]))
         => result = "PROCESS_OK"

\* The requesting thread is the dump-writer thread, which is in the list next
\* to another thread, and Process returned PROCESS_OK without a requesting thread.
C5_Witness ==
  /\ RequestingThreadNotProcessed
  /\ pc = "Done"
  /\ RequestingPositions # {}
  /\ Len(process_state.threads_) = 1
  /\ process_state.requesting_thread_ = -1
  /\ result = "PROCESS_OK"

\* C6: no call stack in threads_ has the dump-writer thread's id, the three
\* per-thread vectors have one entry for each thread the loop went through
\* and did not skip, and original_thread_count_ is the length of the thread
\* list less the threads skipped so far.
C6_DumpThreadSkipped ==
  (dump.header /\ dump.thread_list /\ pc \in {"Threads", "Done"}
   /\ dump.breakpad_info.present /\ dump.breakpad_info.has_dump_thread) =>
    LET skipped == {k \in Visited : WriterThread(dump.threads[k])}
    IN /\ \A j \in 1..Len(process_state.threads_) :
            process_state.threads_[j].tid # dump.breakpad_info.dump_thread_id
       /\ Len(process_state.threads_) = loc.thread_index - Cardinality(skipped)
       /\ Len(process_state.thread_memory_regions_) = Len(process_state.threads_)
       /\ Len(process_state.thread_names_) = Len(process_state.threads_)
       /\ process_state.original_thread_count_ =
            Len(dump.threads) - Cardinality(skipped)

\* Of two threads the first is the dump-writer thread: one call stack, and an
\* original thread count of one.
C6_Witness ==
  /\ pc = "Done"
  /\ Len(dump.threads) = 2
  /\ WriterThread(dump.threads[1])
  /\ ~WriterThread(dump.threads[2])
  /\ Len(process_state.threads_) = 1
  /\ process_state.original_thread_count_ = 1
  /\ result = "PROCESS_OK"

\* The context the claim gives thread t: the exception's for the requesting
\* thread of a crashed dump when the exception has one, else the thread's own.
ClaimedContext(t) ==
  IF /\ dump.exception.present
     /\ loc.has_requesting_thread /\ t.thread_id = loc.requesting_thread_id
     /\ dump.exception.context
  THEN "exception"
  ELSE IF t.context THEN "thread" ELSE "null"

\* C7: every step of the loop that pushes a call stack pushes the stack of the
\* thread at thread_index, walked from the exception's context if it is the
\* requesting thread of a crashed dump and the exception has a context, and
\* from the thread's own context otherwise.
C7_WalkContext ==
  [][(pc = "Threads"
      /\ Len(process_state'.threads_) = Len(process_state.threads_) + 1) =>
       LET t == dump.threads[loc.thread_index + 1]
           stack == process_state'.threads_[Len(process_state'.threads_)]
       IN /\ stack.tid = t.thread_id
          /\ stack.context = ClaimedContext(t)]_vars

\* A crashed dump of two threads: the requesting thread's stack was walked
\* from the exception's context, the other thread's from its own.
C7_Witness ==
  /\ pc = "Done"
  /\ process_state.crashed_
  /\ Len(process_state.threads_) = 2
  /\ process_state.requesting_thread_ = 1
  /\ process_state.threads_[2].context = "exception"
  /\ process_state.threads_[1].context = "thread"

\* ------------------------------------------------- GetCrashReason: the codes of each OS

\* The exception codes the Fuchsia switch has a case for.
FuchsiaCodes ==
  {MD_EXCEPTION_CODE_FUCHSIA_GENERAL,
   MD_EXCEPTION_CODE_FUCHSIA_FATAL_PAGE_FAULT,
   MD_EXCEPTION_CODE_FUCHSIA_UNDEFINED_INSTRUCTION,
   MD_EXCEPTION_CODE_FUCHSIA_SW_BREAKPOINT,
   MD_EXCEPTION_CODE_FUCHSIA_HW_BREAKPOINT,
   MD_EXCEPTION_CODE_FUCHSIA_UNALIGNED_ACCESS,
   MD_EXCEPTION_CODE_FUCHSIA_THREAD_STARTING,
   MD_EXCEPTION_CODE_FUCHSIA_THREAD_EXITING,
   MD_EXCEPTION_CODE_FUCHSIA_POLICY_ERROR,
   MD_EXCEPTION_CODE_FUCHSIA_PROCESS_STARTING}

\* The exception codes the Mac OS X / iOS switch has a case for.
MacCodes ==
  {MD_EXCEPTION_MAC_BAD_ACCESS, MD_EXCEPTION_MAC_BAD_INSTRUCTION,
   MD_EXCEPTION_MAC_ARITHMETIC, MD_EXCEPTION_MAC_EMULATION,
   MD_EXCEPTION_MAC_SOFTWARE, MD_EXCEPTION_MAC_BREAKPOINT,
   MD_EXCEPTION_MAC_SYSCALL, MD_EXCEPTION_MAC_MACH_SYSCALL,
   MD_EXCEPTION_MAC_RPC_ALERT, MD_EXCEPTION_MAC_RESOURCE,
   MD_EXCEPTION_MAC_GUARD, MD_EXCEPTION_MAC_SIMULATED,
   MD_NS_EXCEPTION_SIMULATED}

\* The exception codes the Windows switch has a case for.
WindowsCodes ==
  {MD_EXCEPTION_CODE_WIN_CONTROL_C,
   MD_EXCEPTION_CODE_WIN_GUARD_PAGE_VIOLATION,
   MD_EXCEPTION_CODE_WIN_DATATYPE_MISALIGNMENT,
   MD_EXCEPTION_CODE_WIN_BREAKPOINT, MD_EXCEPTION_CODE_WIN_SINGLE_STEP,
   MD_EXCEPTION_CODE_WIN_ACCESS_VIOLATION,
   MD_EXCEPTION_CODE_WIN_IN_PAGE_ERROR, MD_EXCEPTION_CODE_WIN_INVALID_HANDLE,
   MD_EXCEPTION_CODE_WIN_ILLEGAL_INSTRUCTION,
   MD_EXCEPTION_CODE_WIN_NONCONTINUABLE_EXCEPTION,
   MD_EXCEPTION_CODE_WIN_INVALID_DISPOSITION,
   MD_EXCEPTION_CODE_WIN_ARRAY_BOUNDS_EXCEEDED,
   MD_EXCEPTION_CODE_WIN_FLOAT_DENORMAL_OPERAND,
   MD_EXCEPTION_CODE_WIN_FLOAT_DIVIDE_BY_ZERO,
   MD_EXCEPTION_CODE_WIN_FLOAT_INEXACT_RESULT,
   MD_EXCEPTION_CODE_WIN_FLOAT_INVALID_OPERATION,
   MD_EXCEPTION_CODE_WIN_FLOAT_OVERFLOW,
   MD_EXCEPTION_CODE_WIN_FLOAT_STACK_CHECK,
   MD_EXCEPTION_CODE_WIN_FLOAT_UNDERFLOW,
   MD_EXCEPTION_CODE_WIN_INTEGER_DIVIDE_BY_ZERO,
   MD_EXCEPTION_CODE_WIN_INTEGER_OVERFLOW,
   MD_EXCEPTION_CODE_WIN_PRIVILEGED_INSTRUCTION,
   MD_EXCEPTION_CODE_WIN_STACK_OVERFLOW,
   MD_EXCEPTION_CODE_WIN_BAD_FUNCTION_TABLE,
   MD_EXCEPTION_CODE_WIN_POSSIBLE_DEADLOCK,
   MD_EXCEPTION_CODE_WIN_STACK_BUFFER_OVERRUN,
   MD_EXCEPTION_CODE_WIN_HEAP_CORRUPTION, MD_EXCEPTION_OUT_OF_MEMORY,
   MD_EXCEPTION_CODE_WIN_UNHANDLED_CPP_EXCEPTION,
   MD_EXCEPTION_CODE_WIN_SIMULATED}

\* The exception codes the Linux / Android switch has a case for.
LinuxCodes ==
  {MD_EXCEPTION_CODE_LIN_SIGHUP, MD_EXCEPTION_CODE_LIN_SIGINT,
   MD_EXCEPTION_CODE_LIN_SIGQUIT, MD_EXCEPTION_CODE_LIN_SIGILL,
   MD_EXCEPTION_CODE_LIN_SIGTRAP, MD_EXCEPTION_CODE_LIN_SIGABRT,
   MD_EXCEPTION_CODE_LIN_SIGBUS, MD_EXCEPTION_CODE_LIN_SIGFPE,
   MD_EXCEPTION_CODE_LIN_SIGKILL, MD_EXCEPTION_CODE_LIN_SIGUSR1,
   MD_EXCEPTION_CODE_LIN_SIGSEGV, MD_EXCEPTION_CODE_LIN_SIGUSR2,
   MD_EXCEPTION_CODE_LIN_SIGPIPE, MD_EXCEPTION_CODE_LIN_SIGALRM,
   MD_EXCEPTION_CODE_LIN_SIGTERM, MD_EXCEPTION_CODE_LIN_SIGSTKFLT,
   MD_EXCEPTION_CODE_LIN_SIGCHLD, MD_EXCEPTION_CODE_LIN_SIGCONT,
   MD_EXCEPTION_CODE_LIN_SIGSTOP, MD_EXCEPTION_CODE_LIN_SIGTSTP,
   MD_EXCEPTION_CODE_LIN_SIGTTIN, MD_EXCEPTION_CODE_LIN_SIGTTOU,
   MD_EXCEPTION_CODE_LIN_SIGURG, MD_EXCEPTION_CODE_LIN_SIGXCPU,
   MD_EXCEPTION_CODE_LIN_SIGXFSZ, MD_EXCEPTION_CODE_LIN_SIGVTALRM,
   MD_EXCEPTION_CODE_LIN_SIGPROF, MD_EXCEPTION_CODE_LIN_SIGWINCH,
   MD_EXCEPTION_CODE_LIN_SIGIO, MD_EXCEPTION_CODE_LIN_SIGPWR,
   MD_EXCEPTION_CODE_LIN_SIGSYS, MD_EXCEPTION_CODE_LIN_DUMP_REQUESTED}

\* The exception codes the Solaris switch has a case for.
SolarisCodes ==
  {MD_EXCEPTION_CODE_SOL_SIGHUP, MD_EXCEPTION_CODE_SOL_SIGINT,
   MD_EXCEPTION_CODE_SOL_SIGQUIT, MD_EXCEPTION_CODE_SOL_SIGILL,
   MD_EXCEPTION_CODE_SOL_SIGTRAP, MD_EXCEPTION_CODE_SOL_SIGIOT,
   MD_EXCEPTION_CODE_SOL_SIGEMT, MD_EXCEPTION_CODE_SOL_SIGFPE,
   MD_EXCEPTION_CODE_SOL_SIGKILL, MD_EXCEPTION_CODE_SOL_SIGBUS,
   MD_EXCEPTION_CODE_SOL_SIGSEGV, MD_EXCEPTION_CODE_SOL_SIGSYS,
   MD_EXCEPTION_CODE_SOL_SIGPIPE, MD_EXCEPTION_CODE_SOL_SIGALRM,
   MD_EXCEPTION_CODE_SOL_SIGTERM, MD_EXCEPTION_CODE_SOL_SIGUSR1,
   MD_EXCEPTION_CODE_SOL_SIGUSR2, MD_EXCEPTION_CODE_SOL_SIGCLD,
   MD_EXCEPTION_CODE_SOL_SIGPWR, MD_EXCEPTION_CODE_SOL_SIGWINCH,
   MD_EXCEPTION_CODE_SOL_SIGURG, MD_EXCEPTION_CODE_SOL_SIGPOLL,
   MD_EXCEPTION_CODE_SOL_SIGSTOP, MD_EXCEPTION_CODE_SOL_SIGTSTP,
   MD_EXCEPTION_CODE_SOL_SIGCONT, MD_EXCEPTION_CODE_SOL_SIGTTIN,
   MD_EXCEPTION_CODE_SOL_SIGTTOU, MD_EXCEPTION_CODE_SOL_SIGVTALRM,
   MD_EXCEPTION_CODE_SOL_SIGPROF, MD_EXCEPTION_CODE_SOL_SIGXCPU,
   MD_EXCEPTION_CODE_SOL_SIGXFSZ, MD_EXCEPTION_CODE_SOL_SIGWAITING,
   MD_EXCEPTION_CODE_SOL_SIGLWP, MD_EXCEPTION_CODE_SOL_SIGFREEZE,
   MD_EXCEPTION_CODE_SOL_SIGTHAW, MD_EXCEPTION_CODE_SOL_SIGCANCEL,
   MD_EXCEPTION_CODE_SOL_SIGLOST, MD_EXCEPTION_CODE_SOL_SIGXRES,
   MD_EXCEPTION_CODE_SOL_SIGJVM1, MD_EXCEPTION_CODE_SOL_SIGJVM2}

\* The exception codes the PS3 switch has a case for.
PS3Codes ==
  {MD_EXCEPTION_CODE_PS3_UNKNOWN, MD_EXCEPTION_CODE_PS3_TRAP_EXCEP,
   MD_EXCEPTION_CODE_PS3_PRIV_INSTR, MD_EXCEPTION_CODE_PS3_ILLEGAL_INSTR,
   MD_EXCEPTION_CODE_PS3_INSTR_STORAGE, MD_EXCEPTION_CODE_PS3_INSTR_SEGMENT,
   MD_EXCEPTION_CODE_PS3_DATA_STORAGE, MD_EXCEPTION_CODE_PS3_DATA_SEGMENT,
   MD_EXCEPTION_CODE_PS3_FLOAT_POINT, MD_EXCEPTION_CODE_PS3_DABR_MATCH,
   MD_EXCEPTION_CODE_PS3_ALIGN_EXCEP, MD_EXCEPTION_CODE_PS3_MEMORY_ACCESS,
   MD_EXCEPTION_CODE_PS3_COPRO_ALIGN,
   MD_EXCEPTION_CODE_PS3_COPRO_INVALID_COM, MD_EXCEPTION_CODE_PS3_COPRO_ERR,
   MD_EXCEPTION_CODE_PS3_COPRO_FIR, MD_EXCEPTION_CODE_PS3_COPRO_DATA_SEGMENT,
   MD_EXCEPTION_CODE_PS3_COPRO_DATA_STORAGE,
   MD_EXCEPTION_CODE_PS3_COPRO_STOP_INSTR,
   MD_EXCEPTION_CODE_PS3_COPRO_HALT_INSTR,
   MD_EXCEPTION_CODE_PS3_COPRO_HALTINST_UNKNOWN,
   MD_EXCEPTION_CODE_PS3_COPRO_MEMORY_ACCESS, MD_EXCEPTION_CODE_PS3_GRAPHIC}

\* The fast-fail subcodes the STATUS_STACK_BUFFER_OVERRUN switch has a case for.
FastFailSubcodes ==
  {MD_FAST_FAIL_VTGUARD_CHECK_FAILURE,
   MD_FAST_FAIL_STACK_COOKIE_CHECK_FAILURE, MD_FAST_FAIL_CORRUPT_LIST_ENTRY,
   MD_FAST_FAIL_INCORRECT_STACK, MD_FAST_FAIL_INVALID_ARG,
   MD_FAST_FAIL_GS_COOKIE_INIT, MD_FAST_FAIL_FATAL_APP_EXIT,
   MD_FAST_FAIL_RANGE_CHECK_FAILURE, MD_FAST_FAIL_UNSAFE_REGISTRY_ACCESS,
   MD_FAST_FAIL_GUARD_ICALL_CHECK_FAILURE,
   MD_FAST_FAIL_GUARD_WRITE_CHECK_FAILURE, MD_FAST_FAIL_INVALID_FIBER_SWITCH,
   MD_FAST_FAIL_INVALID_SET_OF_CONTEXT, MD_FAST_FAIL_INVALID_REFERENCE_COUNT,
   MD_FAST_FAIL_INVALID_JUMP_BUFFER, MD_FAST_FAIL_MRDATA_MODIFIED,
   MD_FAST_FAIL_CERTIFICATION_FAILURE, MD_FAST_FAIL_INVALID_EXCEPTION_CHAIN,
   MD_FAST_FAIL_CRYPTO_LIBRARY, MD_FAST_FAIL_INVALID_CALL_IN_DLL_CALLOUT,
   MD_FAST_FAIL_INVALID_IMAGE_BASE, MD_FAST_FAIL_DLOAD_PROTECTION_FAILURE,
   MD_FAST_FAIL_UNSAFE_EXTENSION_CALL,
   MD_FAST_FAIL_DEPRECATED_SERVICE_INVOKED,
   MD_FAST_FAIL_INVALID_BUFFER_ACCESS, MD_FAST_FAIL_INVALID_BALANCED_TREE,
   MD_FAST_FAIL_INVALID_NEXT_THREAD,
   MD_FAST_FAIL_GUARD_ICALL_CHECK_SUPPRESSED, MD_FAST_FAIL_APCS_DISABLED,
   MD_FAST_FAIL_INVALID_IDLE_STATE, MD_FAST_FAIL_MRDATA_PROTECTION_FAILURE,
   MD_FAST_FAIL_UNEXPECTED_HEAP_EXCEPTION, MD_FAST_FAIL_INVALID_LOCK_STATE,
   MD_FAST_FAIL_GUARD_JUMPTABLE, MD_FAST_FAIL_INVALID_LONGJUMP_TARGET,
   MD_FAST_FAIL_INVALID_DISPATCH_CONTEXT, MD_FAST_FAIL_INVALID_THREAD,
   MD_FAST_FAIL_INVALID_SYSCALL_NUMBER, MD_FAST_FAIL_INVALID_FILE_OPERATION,
   MD_FAST_FAIL_LPAC_ACCESS_DENIED, MD_FAST_FAIL_GUARD_SS_FAILURE,
   MD_FAST_FAIL_LOADER_CONTINUITY_FAILURE,
   MD_FAST_FAIL_GUARD_EXPORT_SUPPRESSION_FAILURE,
   MD_FAST_FAIL_INVALID_CONTROL_STACK, MD_FAST_FAIL_SET_CONTEXT_DENIED,
   MD_FAST_FAIL_INVALID_IAT, MD_FAST_FAIL_HEAP_METADATA_CORRUPTION,
   MD_FAST_FAIL_PAYLOAD_RESTRICTION_VIOLATION,
   MD_FAST_FAIL_LOW_LABEL_ACCESS_DENIED, MD_FAST_FAIL_ENCLAVE_CALL_FAILURE,
   MD_FAST_FAIL_UNHANDLED_LSS_EXCEPTON, MD_FAST_FAIL_ADMINLESS_ACCESS_DENIED,
   MD_FAST_FAIL_UNEXPECTED_CALL, MD_FAST_FAIL_CONTROL_INVALID_RETURN_ADDRESS,
   MD_FAST_FAIL_UNEXPECTED_HOST_BEHAVIOR, MD_FAST_FAIL_FLAGS_CORRUPTION,
   MD_FAST_FAIL_VEH_CORRUPTION, MD_FAST_FAIL_ETW_CORRUPTION,
   MD_FAST_FAIL_RIO_ABORT, MD_FAST_FAIL_INVALID_PFN,
   MD_FAST_FAIL_GUARD_ICALL_CHECK_FAILURE_XFG, MD_FAST_FAIL_CAST_GUARD,
   MD_FAST_FAIL_HOST_VISIBILITY_CHANGE,
   MD_FAST_FAIL_KERNEL_CET_SHADOW_STACK_ASSIST,
   MD_FAST_FAIL_PATCH_CALLBACK_FAILED, MD_FAST_FAIL_NTDLL_PATCH_FAILED,
   MD_FAST_FAIL_INVALID_FLS_DATA}

\* The exception_flags of the modelled records: the value of every flag
\* enumerator of the Mac and Linux sub-switches, and three that none of them has.
FlagValues ==
  {-559038242, 1, 2, 3, 4, 5, 6, 7, 8, 9, 10, 11, 12, 13, 17, 50, 257, 258,
   259, 65538, 65792, 240, 2147483647, -2}

\* The mnemonics the Mac and Linux sub-code tables print for a flags value.
FlagMnemonics ==
  {"KERN_INVALID_ADDRESS", "KERN_PROTECTION_FAILURE", "KERN_NO_ACCESS",
   "KERN_MEMORY_FAILURE", "KERN_MEMORY_ERROR", "KERN_CODESIGN_ERROR",
   "EXC_ARM_DA_ALIGN", "EXC_ARM_DA_DEBUG", "EXC_PPC_VM_PROT_READ",
   "EXC_PPC_BADSPACE", "EXC_PPC_UNALIGNED", "EXC_I386_GPFLT",
   "EXC_ARM_UNDEFINED", "EXC_PPC_INVALID_SYSCALL", "EXC_PPC_UNIPL_INST",
   "EXC_PPC_PRIVINST", "EXC_PPC_PRIVREG", "EXC_PPC_TRACE", "EXC_PPC_PERFMON",
   "EXC_I386_INVOP", "EXC_I386_INVTSSFLT", "EXC_I386_SEGNPFLT",
   "EXC_I386_STKFLT", "EXC_I386_ALIGNFLT", "EXC_PPC_OVERFLOW",
   "EXC_PPC_ZERO_DIVIDE", "EXC_FLT_INEXACT", "EXC_PPC_FLT_ZERO_DIVIDE",
   "EXC_PPC_FLT_UNDERFLOW", "EXC_PPC_FLT_OVERFLOW",
   "EXC_PPC_FLT_NOT_A_NUMBER", "EXC_PPC_NOEMULATION",
   "EXC_PPC_ALTIVECASSIST", "EXC_I386_DIV", "EXC_I386_INTO",
   "EXC_I386_NOEXT", "EXC_I386_EXTOVR", "EXC_I386_EXTERR", "EXC_I386_EMERR",
   "EXC_I386_BOUND", "EXC_I386_SSEEXTERR", "SIGABRT",
   "UNCAUGHT_NS_EXCEPTION", "EXC_PPC_TRAP", "EXC_PPC_MIGRATE",
   "EXC_ARM_BREAKPOINT", "EXC_PPC_BREAKPOINT", "EXC_I386_SGL",
   "EXC_I386_BPT", "ILL_ILLOPC", "ILL_ILLOPN", "ILL_ILLADR", "ILL_ILLTRP",
   "ILL_PRVOPC", "ILL_PRVREG", "ILL_COPROC", "ILL_BADSTK", "BUS_ADRALN",
   "BUS_ADRERR", "BUS_OBJERR", "BUS_MCEERR_AR", "BUS_MCEERR_AO",
   "FPE_INTDIV", "FPE_INTOVF", "FPE_FLTDIV", "FPE_FLTOVF", "FPE_FLTUND",
   "FPE_FLTRES", "FPE_FLTINV", "FPE_FLTSUB", "SEGV_MAPERR", "SEGV_ACCERR",
   "SEGV_BNDERR", "SEGV_PKUERR", "SEGV_ACCADI", "SEGV_ADIDERR",
   "SEGV_ADIPERR", "SEGV_MTEAERR", "SEGV_MTESERR"}

\* ------------------------------------------------- GetCrashReason on its own

\* What a dump yields to GetCrashReason.
CrashInput(exception, raw_exception, code, flags, number_parameters, info0, system_info, platform_id, processor_architecture) ==
  [exception |-> exception,
   raw_exception |-> raw_exception,
   exception_code |-> code,
   exception_flags |-> flags,
   exception_address |-> UInt64(32767, 305419896),
   number_parameters |-> number_parameters,
   exception_information |-> <<UInt64(0, info0), UInt64(1, 4096), UInt64(0, 240)>>,
   system_info |-> system_info,
   platform_id |-> platform_id,
   processor_architecture |-> processor_architecture]

\* Exception codes given to every platform: codes of other platforms and
\* codes of none.
SampleCodes ==
  {0, 240, -559038737, MD_EXCEPTION_MAC_BAD_ACCESS, MD_EXCEPTION_CODE_LIN_SIGSEGV,
   MD_EXCEPTION_CODE_WIN_ACCESS_VIOLATION}

\* The dumps GetCrashReason is called on.
CrashInputs ==
  {CrashInput(FALSE, FALSE, 0, 0, 0, 0, TRUE, MD_OS_LINUX, MD_CPU_ARCHITECTURE_AMD64),
   CrashInput(TRUE, FALSE, 0, 0, 0, 0, TRUE, MD_OS_LINUX, MD_CPU_ARCHITECTURE_AMD64)}
  \cup {CrashInput(TRUE, TRUE, c, f, 0, 0, FALSE, 0, 0) :
          c \in SampleCodes, f \in {0, 1, -2}}
  \cup {CrashInput(TRUE, TRUE, c, f, 0, 0, TRUE, p, a) :
          c \in MacCodes \cup SampleCodes, f \in FlagValues,
          p \in {MD_OS_MAC_OS_X, MD_OS_IOS},
          a \in {MD_CPU_ARCHITECTURE_X86, MD_CPU_ARCHITECTURE_AMD64,
                 MD_CPU_ARCHITECTURE_PPC, MD_CPU_ARCHITECTURE_ARM,
                 MD_CPU_ARCHITECTURE_ARM64_OLD, MD_CPU_ARCHITECTURE_ARM64}}
  \cup {CrashInput(TRUE, TRUE, c, f, 0, 0, TRUE, p, a) :
          c \in LinuxCodes \cup SampleCodes, f \in FlagValues,
          p \in {MD_OS_LINUX, MD_OS_ANDROID},
          a \in {MD_CPU_ARCHITECTURE_AMD64, MD_CPU_ARCHITECTURE_ARM}}
  \cup {CrashInput(TRUE, TRUE, c, 0, n, i, TRUE, p, a) :
          c \in WindowsCodes \cup SampleCodes, n \in 0..3,
          i \in {MD_ACCESS_VIOLATION_WIN_READ, MD_ACCESS_VIOLATION_WIN_WRITE,
                 MD_ACCESS_VIOLATION_WIN_EXEC, 2},
          p \in {MD_OS_WIN32_NT, MD_OS_WIN32_WINDOWS},
          a \in {MD_CPU_ARCHITECTURE_X86, MD_CPU_ARCHITECTURE_AMD64}}
  \cup {CrashInput(TRUE, TRUE, MD_EXCEPTION_CODE_WIN_STACK_BUFFER_OVERRUN, 0, n, i,
                   TRUE, MD_OS_WIN32_NT, MD_CPU_ARCHITECTURE_AMD64) :
          n \in {0, 1}, i \in FastFailSubcodes \cup {0, 240}}
  \cup {CrashInput(TRUE, TRUE, c, f, 0, 0, TRUE, MD_OS_FUCHSIA,
                   MD_CPU_ARCHITECTURE_AMD64) :
          c \in FuchsiaCodes \cup SampleCodes, f \in {0, 1, -2}}
  \cup {CrashInput(TRUE, TRUE, c, f, 0, 0, TRUE, MD_OS_SOLARIS,
                   MD_CPU_ARCHITECTURE_X86) :
          c \in SolarisCodes \cup SampleCodes, f \in {0, 1, -2}}
  \cup {CrashInput(TRUE, TRUE, c, f, 0, 0, TRUE, MD_OS_PS3,
                   MD_CPU_ARCHITECTURE_PPC) :
          c \in PS3Codes \cup SampleCodes, f \in {0, 1, -2}}
  \cup {CrashInput(TRUE, TRUE, c, f, 0, 0, TRUE, p, MD_CPU_ARCHITECTURE_X86) :
          c \in SampleCodes, f \in {0, 1, -2}, p \in {MD_OS_NACL, 0, 240}}

\* Process is not running.
ProcessIdle ==
  /\ dump = <<>>
  /\ max_thread_count_ = -1
  /\ process_state = ClearedState
  /\ loc = InitialLocals
  /\ pc = "Idle"
  /\ result = "NONE"
  /\ reads = {}

\* GetCrashReason is about to be called, with an address variable that holds
\* what an earlier call left in it.
ReasonInit ==
  /\ crash_dump \in CrashInputs
  /\ crash_address = UInt64(0, 8192)
  /\ crash_reason = "NOT CALLED"
  /\ crash_pc = "call"

\* reason = GetCrashReason(dump, &address, false).
CallGetCrashReason ==
  /\ crash_pc = "call"
  /\ LET r == GetCrashReason(crash_dump, crash_address)
     IN /\ crash_reason' = r.reason
        /\ crash_address' = r.address
  /\ crash_pc' = "done"
  /\ UNCHANGED <<crash_dump, procVars, moduleVars, dwarfVars, restVars>>

InitReason == ProcessIdle /\ ReasonInit /\ ModuleIdle /\ DwarfIdle /\ RestIdle

NextReason == CallGetCrashReason

SpecReason == InitReason /\ [][NextReason]_vars

\* ------------------------------------------------- GetCrashReason: the claims

\* The hexadecimal digit of a value 0..15, lowercase.
HexDigit(v) ==
  CASE v = 0 -> "0" [] v = 1 -> "1" [] v = 2 -> "2" [] v = 3 -> "3"
    [] v = 4 -> "4" [] v = 5 -> "5" [] v = 6 -> "6" [] v = 7 -> "7"
    [] v = 8 -> "8" [] v = 9 -> "9" [] v = 10 -> "a" [] v = 11 -> "b"
    [] v = 12 -> "c" [] v = 13 -> "d" [] v = 14 -> "e" [] v = 15 -> "f"

\* Bits 4k .. 4k+3 of the 32-bit value n.
Nibble(n, k) == (n \div (16 ^ k)) % 16

\* The 32-bit value n as eight hexadecimal digits.
Hex8(n) ==
  HexDigit(Nibble(n, 7)) \o HexDigit(Nibble(n, 6)) \o HexDigit(Nibble(n, 5))
    \o HexDigit(Nibble(n, 4)) \o HexDigit(Nibble(n, 3)) \o HexDigit(Nibble(n, 2))
    \o HexDigit(Nibble(n, 1)) \o HexDigit(Nibble(n, 0))

\* The exception codes the dump's OS knows; none without system info or on a
\* platform that is not one of the known ones.
RecognizedCodes(d) ==
  IF ~d.system_info THEN {}
  ELSE CASE d.platform_id \in {MD_OS_MAC_OS_X, MD_OS_IOS} -> MacCodes
         [] d.platform_id \in {MD_OS_WIN32_NT, MD_OS_WIN32_WINDOWS} -> WindowsCodes
         [] d.platform_id \in {MD_OS_LINUX, MD_OS_ANDROID} -> LinuxCodes
         [] d.platform_id = MD_OS_FUCHSIA -> FuchsiaCodes
         [] d.platform_id = MD_OS_SOLARIS -> SolarisCodes
         [] d.platform_id = MD_OS_PS3 -> PS3Codes
         [] OTHER -> {}

\* GetCrashReason has returned for a dump with an exception record.
ReasonReturned ==
  crash_pc = "done" /\ crash_dump.exception /\ crash_dump.raw_exception

SubcodeMnemonic(d) ==
  IF ~d.system_info THEN ""
  ELSE IF d.platform_id \in {MD_OS_MAC_OS_X, MD_OS_IOS}
  THEN CASE d.exception_code = MD_EXCEPTION_MAC_BAD_ACCESS -> "EXC_BAD_ACCESS"
         [] d.exception_code = MD_EXCEPTION_MAC_BAD_INSTRUCTION -> "EXC_BAD_INSTRUCTION"
         [] d.exception_code = MD_EXCEPTION_MAC_ARITHMETIC -> "EXC_ARITHMETIC"
         [] d.exception_code = MD_EXCEPTION_MAC_EMULATION -> "EXC_EMULATION"
         [] d.exception_code = MD_EXCEPTION_MAC_SOFTWARE -> "EXC_SOFTWARE"
         [] d.exception_code = MD_EXCEPTION_MAC_BREAKPOINT -> "EXC_BREAKPOINT"
         [] d.exception_code = MD_EXCEPTION_MAC_SYSCALL -> "EXC_SYSCALL"
         [] d.exception_code = MD_EXCEPTION_MAC_MACH_SYSCALL -> "EXC_MACH_SYSCALL"
         [] d.exception_code = MD_EXCEPTION_MAC_RPC_ALERT -> "EXC_RPC_ALERT"
         [] d.exception_code = MD_EXCEPTION_MAC_RESOURCE -> "EXC_RESOURCE"
         [] d.exception_code = MD_EXCEPTION_MAC_GUARD -> "EXC_GUARD"
         [] OTHER -> ""
  ELSE IF d.platform_id \in {MD_OS_LINUX, MD_OS_ANDROID}
  THEN CASE d.exception_code = MD_EXCEPTION_CODE_LIN_SIGILL -> "SIGILL"
         [] d.exception_code = MD_EXCEPTION_CODE_LIN_SIGBUS -> "SIGBUS"
         [] d.exception_code = MD_EXCEPTION_CODE_LIN_SIGFPE -> "SIGFPE"
         [] d.exception_code = MD_EXCEPTION_CODE_LIN_SIGSEGV -> "SIGSEGV"
         [] OTHER -> ""
  ELSE ""

\* The strings of the form "<CODE> / <FLAGS>" for the dump d: the code
\* mnemonic, space slash space, a flag mnemonic or the flags as 0x%08x.
SubcodeForms(d) ==
  {SubcodeMnemonic(d) \o " / " \o f :
     f \in FlagMnemonics \cup {"0x" \o Hex8(d.exception_flags)}}

\* C9: for a Mach or POSIX exception code that has sub-codes the crash reason
\* has the form "<CODE> / <FLAGS>".
C9_SubcodeForm ==
  (ReasonReturned /\ SubcodeMnemonic(crash_dump) # "") =>
    crash_reason \in SubcodeForms(crash_dump)

\* The same for every code with sub-codes but SIGSEGV: the form holds.
C9_FormButSigsegv ==
  (ReasonReturned /\ SubcodeMnemonic(crash_dump) \notin {"", "SIGSEGV"}) =>
    crash_reason \in SubcodeForms(crash_dump)

\* What Linux SIGSEGV gives: no space after the slash (line 1801).
C9_SigsegvForm ==
  (ReasonReturned /\ SubcodeMnemonic(crash_dump) = "SIGSEGV") =>
    crash_reason \in {"SIGSEGV /" \o f :
                        f \in FlagMnemonics \cup {"0x" \o Hex8(crash_dump.exception_flags)}}

\* ======================================================================
\* Module: AddFunction, AddExtern and Write, as the tests of
\* src/common/module_unittest.cc drive them.  Every function the tests
\* build covers one range that starts at its address.
\* ======================================================================

\* The number of calls made on one Module.
MaxCalls == 4

\* The names in use, in the order std::string compares them.
Names == <<"_abc", "_and_void", "_without_form", "_xyz">>

NameRank(name) == CHOOSE i \in 1..Len(Names) : Names[i] = name

\* Module::Range(address, size)
Range(address, size) == [address |-> address, size |-> size]

\* generate_duplicate_function: a Function with one range at its address and
\* a fixed parameter size; is_multiple starts false.
Function(name, address, size) ==
  [name |-> name, address |-> address, ranges |-> <<Range(address, size)>>,
   parameter_size |-> 0, is_multiple |-> FALSE, lines |-> <<>>]

\* Module::Extern(address) with its name set; is_multiple starts false.
Extern(address, name) == [address |-> address, name |-> name, is_multiple |-> FALSE]

Functions == {Function(name, address, size) : name \in {"_and_void", "_without_form"}, address \in {16, 32}, size \in {16, 32}}

\* 17 is the Thumb form of address 16.  As in every test, no extern bears the
\* name of a function.
Externs == {Extern(address, name) : address \in {16, 17}, name \in {"_abc", "_xyz"}}

\* Module m(name, os, architecture, id, code_id, enable_multiple_field,
\* prefer_extern_name)
Module(architecture, enable_multiple_field, prefer_extern_name) ==
  [architecture |-> architecture,
   enable_multiple_field_ |-> enable_multiple_field,
   prefer_extern_name_ |-> prefer_extern_name]

\* The modules the tests construct (lines 512, 560, 688 and 751).
Modules ==
  {Module("architecture", FALSE, FALSE), Module("architecture", TRUE, FALSE),
   Module("architecture", FALSE, TRUE), Module("arm", FALSE, FALSE)}

\* A new function displaces no extern.
NoExtern(m, exts, address) == {}

\* A new function displaces the extern at its own address only.
ExactExtern(m, exts, address) == {e \in exts : e.address = address}

\* The extern a new function displaces: the one at its address, or on "arm"
\* the Thumb extern one above an even address.  At most one extern.
FindExtern(m, exts, address) ==
  LET exact == {e \in exts : e.address = address}
      thumb == {e \in exts : e.address = address + 1}
  IN  IF exact # {} THEN exact
      ELSE IF m.architecture = "arm" /\ address % 2 = 0 THEN thumb
      ELSE {}

\* The function is stored as it was handed in.
KeepFunction(m, f, found) == f

\* The function as it is stored once the extern it displaces is taken into
\* account: marked multiple under enable_multiple_field_ when the names
\* differ or the extern was multiple, renamed under prefer_extern_name_.
MergeExtern(m, f, found) ==
  IF found = {} THEN f
  ELSE LET e == CHOOSE x \in found : TRUE
           name_mismatch == e.name # f.name
       IN  [f EXCEPT
              !.is_multiple = @ \/ (m.enable_multiple_field_ /\ (name_mismatch \/ e.is_multiple)),
              !.name = IF name_mismatch /\ m.prefer_extern_name_ THEN e.name ELSE @]

\* Two functions are one when their range lists are equal.
SameRanges(g, f) == g.ranges = f.ranges

\* Two functions are one entry of functions_ when address and name agree.
SameFunction(g, f) == g.address = f.address /\ g.name = f.name

\* The function already held stays unmarked.
LeaveUnmarked(g) == g

\* The function already held at the address is tagged as one of several.
MarkMultiple(g) == [g EXCEPT !.is_multiple = TRUE]

\* functions_ iterates by address, then by name.
FunctionBefore(g, f) ==
  \/ g.address < f.address
  \/ g.address = f.address /\ NameRank(g.name) < NameRank(f.name)

FirstFunction(fns) == CHOOSE g \in fns : \A f \in fns \ {g} : FunctionBefore(g, f)

\* With enable_multiple_field_ too, a function is added next to the ones
\* held at its address.
NeverHeldAtAddress(m, at_address) == FALSE

\* With enable_multiple_field_ a function at the address of one already
\* held is not added.
HeldAtAddress(m, at_address) == m.enable_multiple_field_ /\ at_address # {}

\* What AddFunction(f) leaves behind and returns.
InsertFunction(m, fns, exts, f) ==
  LET found == FindExtern(m, exts, f.address)
      fn == MergeExtern(m, f, found)
      kept == exts \ found
      at_address == {g \in fns : g.address = fn.address}
      existing == FirstFunction(at_address)
  IN  IF HeldAtAddress(m, at_address)
        THEN [functions |-> (fns \ {existing}) \cup {MarkMultiple(existing)},
              externs |-> kept, returned |-> FALSE]
      ELSE IF \E g \in fns : SameFunction(g, fn)
        THEN [functions |-> fns, externs |-> kept, returned |-> FALSE]
      ELSE [functions |-> fns \cup {fn}, externs |-> kept, returned |-> TRUE]

\* The extern added last takes the place of the one held at its address.
ReplaceExtern(m, exts, ext) == {e \in exts : e.address # ext.address} \cup {ext}

\* What AddExtern(ext) leaves in externs_: the first extern at an address
\* stays, and is marked multiple under enable_multiple_field_.
InsertExtern(m, exts, ext) ==
  LET held == {e \in exts : e.address = ext.address}
  IN  IF held = {} THEN exts \cup {ext}
      ELSE IF m.enable_multiple_field_
        THEN (exts \ held) \cup {[e EXCEPT !.is_multiple = TRUE] : e \in held}
      ELSE exts

\* No address is filtered out.
AnyAddressIsInModule(ranges, address) == TRUE

\* The closed range: its end address is in the module as well.
AddressIsInClosedRange(ranges, address) ==
  \/ ranges = <<>>
  \/ \E i \in DOMAIN ranges :
       ranges[i].address <= address /\ address <= ranges[i].address + ranges[i].size

\* Module::AddressIsInModule: with no address range set every address is in
\* the module, else those of the half-open ranges [address, address + size).
AddressIsInModule(ranges, address) ==
  \/ ranges = <<>>
  \/ \E i \in DOMAIN ranges :
       ranges[i].address <= address /\ address < ranges[i].address + ranges[i].size

\* AddFunction with the address filter in front.
AddFunctionTo(m, ranges, fns, exts, f) ==
  IF AddressIsInModule(ranges, f.address)
    THEN InsertFunction(m, fns, exts, f)
    ELSE [functions |-> fns, externs |-> exts, returned |-> FALSE]

\* AddExtern with the address filter in front.
AddExternTo(m, ranges, exts, ext) ==
  IF AddressIsInModule(ranges, ext.address) THEN InsertExtern(m, exts, ext) ELSE exts

\* An entry is in the module when its start address is, wherever it ends.
EntryIsInModule(ranges, entry) == AddressIsInModule(ranges, entry.address)

\* AddStackFrameEntry: the entries are kept in the order they arrive.
AddStackFrameEntryTo(ranges, entries, entry) ==
  IF EntryIsInModule(ranges, entry) THEN Append(entries, entry) ELSE entries

\* The file names in use, in the order std::string compares them.
FileNames == <<"filename1", "filename2", "filename3">>

FileRank(name) == CHOOSE i \in 1..Len(FileNames) : FileNames[i] = name

\* Module::File(name): source_id starts at -1.
File(name) == [name |-> name, source_id |-> -1]

\* FindFile(name): the file of that name, created if the module has none.
FindFile(files, name) ==
  IF \E file \in files : file.name = name THEN files ELSE files \cup {File(name)}

\* The files cited by a line of a function of the module.
CitedFiles(fns) == UNION {{f.lines[k].file : k \in DOMAIN f.lines} : f \in fns}

\* Every file gets the id it was created with.
KeepSourceIds(files, fns) == files

\* The used files are numbered in reverse name order.
AssignSourceIdsBackwards(files, fns) ==
  {[name |-> file.name,
    source_id |-> IF file.name \in CitedFiles(fns)
                    THEN Cardinality({n \in CitedFiles(fns) : FileRank(n) > FileRank(file.name)})
                    ELSE -1] : file \in files}

\* Module::AssignSourceIds: -1 for every file, then the files cited by a line
\* of a function of the module are numbered from 0 in name order.
AssignSourceIds(files, fns) ==
  {[name |-> file.name,
    source_id |-> IF file.name \in CitedFiles(fns)
                    THEN Cardinality({n \in CitedFiles(fns) : FileRank(n) < FileRank(file.name)})
                    ELSE -1] : file \in files}

\* "FILE <id> <name>"
FileRecord(file) == [keyword |-> "FILE", id |-> file.source_id, name |-> file.name]

\* The FILE records: the files with an id, in name order.
RECURSIVE FileRecords(_)
FileRecords(files) ==
  IF files = {} THEN <<>>
  ELSE LET file == CHOOSE x \in files : \A y \in files : FileRank(x.name) <= FileRank(y.name)
       IN  (IF file.source_id >= 0 THEN <<FileRecord(file)>> ELSE <<>>)
           \o FileRecords(files \ {file})

\* The id of the file of the given name.
SourceId(files, name) == (CHOOSE file \in files : file.name = name).source_id

\* "<address> <size> <number> <file id>": the lines of a function, in the
\* order they were pushed.
LineRecords(f, files) ==
  [k \in DOMAIN f.lines |->
     [keyword |-> "", address |-> f.lines[k].address, size |-> f.lines[k].size,
      number |-> f.lines[k].number, file_id |-> SourceId(files, f.lines[k].file)]]


FuncRecord(f) ==
  [keyword |-> "FUNC", m |-> f.is_multiple, address |-> f.ranges[1].address,
   size |-> f.ranges[1].size, parameter_size |-> f.parameter_size, name |-> f.name]

PublicRecord(e) ==
  [keyword |-> "PUBLIC", m |-> e.is_multiple, address |-> e.address,
   parameter_size |-> 0, name |-> e.name]

RECURSIVE FuncRecords(_, _)
FuncRecords(fns, files) ==
  IF fns = {} THEN <<>>
  ELSE LET f == FirstFunction(fns)
       IN  <<FuncRecord(f)>> \o LineRecords(f, files) \o FuncRecords(fns \ {f}, files)

RECURSIVE PublicRecords(_)
PublicRecords(exts) ==
  IF exts = {} THEN <<>>
  ELSE LET e == CHOOSE x \in exts : \A y \in exts : x.address <= y.address
       IN  <<PublicRecord(e)>> \o PublicRecords(exts \ {e})

\* The rule names in use, in the order std::string compares them.
RuleNames == <<".cfa", "Mister", "and", "how">>

RuleRank(name) == CHOOSE i \in 1..Len(RuleNames) : RuleNames[i] = name

\* A RuleMap as written: "<name>: <expression>" by ascending name.
RECURSIVE Rules(_)
Rules(rule_map) ==
  IF rule_map = {} THEN <<>>
  ELSE LET rule == CHOOSE x \in rule_map : \A y \in rule_map : RuleRank(x.name) <= RuleRank(y.name)
       IN  <<rule>> \o Rules(rule_map \ {rule})

\* "STACK CFI <address> <rules>" for the rule changes of an entry, by
\* ascending address.
RECURSIVE DeltaRecords(_)
DeltaRecords(rule_changes) ==
  IF rule_changes = {} THEN <<>>
  ELSE LET delta == CHOOSE x \in rule_changes : \A y \in rule_changes : x.address <= y.address
       IN  <<[keyword |-> "STACK CFI", address |-> delta.address, rules |-> Rules(delta.rules)]>>
           \o DeltaRecords(rule_changes \ {delta})

\* "STACK CFI INIT <address> <size> <rules>" and the entry's rule changes.
EntryRecords(entry) ==
  <<[keyword |-> "STACK CFI INIT", address |-> entry.address, size |-> entry.size,
     rules |-> Rules(entry.initial_rules)]>> \o DeltaRecords(entry.rule_changes)

\* The entries sorted by address.
RECURSIVE CfiRecordsByAddress(_)
CfiRecordsByAddress(entries) ==
  IF entries = <<>> THEN <<>>
  ELSE LET i == CHOOSE k \in DOMAIN entries :
                  \A j \in DOMAIN entries : entries[k].address <= entries[j].address
       IN  EntryRecords(entries[i])
           \o CfiRecordsByAddress([k \in 1..(Len(entries) - 1) |->
                                     IF k < i THEN entries[k] ELSE entries[k + 1]])

\* The STACK CFI records: the entries in the order they were added.
RECURSIVE CfiRecords(_)
CfiRecords(entries) ==
  IF entries = <<>> THEN <<>>
  ELSE EntryRecords(Head(entries)) \o CfiRecords(Tail(entries))

\* The records Write puts after the MODULE line, before relocation.
WriteRecords(files, fns, exts, entries) ==
  FileRecords(files) \o FuncRecords(fns, files) \o PublicRecords(exts) \o CfiRecords(entries)

\* Nothing is subtracted.
Unrelocated(address, load_address) == address

\* address - load_address in uint64_t arithmetic; a uint64_t is held as the
\* int64_t with the same bits, so a difference below zero stands for the
\* value 2^64 less its magnitude.
Relocate(address, load_address) == address - load_address

\* A PUBLIC record with the load address taken off.
RelocatedPublic(r, load_address) == [r EXCEPT !.address = Relocate(@, load_address)]

\* A record with the load address taken off its address.
Relocated(r, load_address) ==
  IF r.keyword = "FILE" THEN r
  ELSE IF r.keyword = "PUBLIC" THEN RelocatedPublic(r, load_address)
  ELSE [r EXCEPT !.address = Relocate(@, load_address)]

\* What Write puts after the MODULE line.
WriteOutput(files, fns, exts, entries, load_address, preserve_load_address) ==
  LET records == WriteRecords(files, fns, exts, entries)
      subtracted == IF preserve_load_address THEN 0 ELSE load_address
  IN  [i \in DOMAIN records |-> Relocated(records[i], subtracted)]

\* The sixteen digits of a uint64_t with its top bit set.
RECURSIVE HexDigitsOf(_, _)
HexDigitsOf(n, digits) ==
  IF digits = 0 THEN "" ELSE HexDigitsOf(n \div 16, digits - 1) \o HexDigits[(n % 16) + 1]

\* A uint64_t through "<< hex": lowercase, no prefix, no leading zero.
Hex64(n) == IF n >= 0 THEN HexOf(n) ELSE HexDigitsOf(n, 16)

DecDigits == <<"0", "1", "2", "3", "4", "5", "6", "7", "8", "9">>

\* An int through "<< dec".
RECURSIVE Dec(_)
Dec(n) ==
  IF n < 0 THEN "-" \o Dec(0 - n)
  ELSE IF n < 10 THEN DecDigits[n + 1]
  ELSE Dec(n \div 10) \o DecDigits[(n % 10) + 1]

\* The rules of a STACK CFI line: "<name>:" and the expression, in turn.
RECURSIVE RuleFields(_)
RuleFields(rules) ==
  IF rules = <<>> THEN <<>>
  ELSE <<Head(rules).name \o ":", Head(rules).expression>> \o RuleFields(Tail(rules))

\* The fields of a record's line, in the order Write puts them.
Line(r) ==
  IF r.keyword = "FILE" THEN <<"FILE", Dec(r.id), r.name>>
  ELSE IF r.keyword = "" THEN <<Hex64(r.address), Hex64(r.size), Dec(r.number), Dec(r.file_id)>>
  ELSE IF r.keyword = "FUNC"
    THEN <<"FUNC">> \o (IF r.m THEN <<"m">> ELSE <<>>)
         \o <<Hex64(r.address), Hex64(r.size), Hex64(r.parameter_size), r.name>>
  ELSE IF r.keyword = "PUBLIC"
    THEN <<"PUBLIC">> \o (IF r.m THEN <<"m">> ELSE <<>>)
         \o <<Hex64(r.address), Hex64(r.parameter_size), r.name>>
  ELSE IF r.keyword = "STACK CFI INIT"
    THEN <<"STACK", "CFI", "INIT", Hex64(r.address), Hex64(r.size)>> \o RuleFields(r.rules)
  ELSE <<"STACK", "CFI", Hex64(r.address)>> \o RuleFields(r.rules)

\* Module m(...): an empty module.
ModuleInit ==
  /\ module \in Modules
  /\ functions_ = {}
  /\ externs_ = {}
  /\ contents = <<>>
  /\ history = <<>>
  /\ files_ = {}
  /\ stack_frame_entries_ = <<>>
  /\ load_address_ = 0
  /\ address_ranges_ = <<>>
  /\ written = FALSE

\* m.AddFunction(function)
AddFunction ==
  \E f \in Functions :
    LET r == AddFunctionTo(module, address_ranges_, functions_, externs_, f)
    IN  /\ Len(history) < MaxCalls
        /\ functions_' = r.functions
        /\ externs_' = r.externs
        /\ history' = Append(history, [op |-> "AddFunction", argument |-> f,
                                       returned |-> r.returned])
        /\ UNCHANGED <<module, contents, files_, stack_frame_entries_, load_address_,
                       address_ranges_, written, procVars, reasonVars, dwarfVars, restVars>>

\* No function has been handed to AddFunction yet.
NoFunctionAdded == \A i \in DOMAIN history : history[i].op # "AddFunction"

\* m.AddExtern(std::move(ext)); every test adds its externs before its
\* functions.
AddExtern ==
  \E ext \in Externs :
    /\ Len(history) < MaxCalls
    /\ NoFunctionAdded
    /\ externs_' = AddExternTo(module, address_ranges_, externs_, ext)
    /\ history' = Append(history, [op |-> "AddExtern", argument |-> ext,
                                   returned |-> TRUE])
    /\ UNCHANGED <<module, functions_, contents, files_, stack_frame_entries_, load_address_,
                   address_ranges_, written, procVars, reasonVars, dwarfVars, restVars>>

\* m.Write(s, ALL_SYMBOL_DATA)
Write ==
  /\ Len(history) < MaxCalls
  /\ files_' = AssignSourceIds(files_, functions_)
  /\ contents' = WriteOutput(files_', functions_, externs_, stack_frame_entries_,
                             load_address_, FALSE)
  /\ written' = TRUE
  /\ history' = Append(history, [op |-> "Write",
                                 argument |-> [symbol_data |-> "ALL_SYMBOL_DATA",
                                               preserve_load_address |-> FALSE],
                                 returned |-> TRUE])
  /\ UNCHANGED <<module, functions_, externs_, stack_frame_entries_, load_address_,
                 address_ranges_, procVars, reasonVars, dwarfVars, restVars>>

InitModule == ProcessIdle /\ ReasonIdle /\ ModuleInit /\ DwarfIdle /\ RestIdle

NextModule == AddFunction \/ AddExtern \/ Write

SpecModule == InitModule /\ [][NextModule]_vars

\* ------------------------------------------------- Module: the claims

\* The step is a call on the Module.
ModuleCall == Len(history') = Len(history) + 1

\* The functions held, without the multiple mark.
Held(fns) == {<<g.name, g.address, g.ranges>> : g \in fns}

\* The FUNC records of a Write output that carry the given address and size.
FuncRecordsFor(out, range) ==
  {i \in DOMAIN out : /\ out[i].keyword = "FUNC"
                      /\ out[i].address = range.address
                      /\ out[i].size = range.size}

\* The name AddFunction stores a function under.
StoredName(f) == MergeExtern(module, f, FindExtern(module, externs_, f.address)).name

\* C10 as stated: AddFunction returns false and leaves the function set
\* unchanged whenever the module already holds a function with
\* pairwise-identical ranges, and Write then emits exactly one FUNC record
\* for each range set held.
C10_Original ==
  [][ModuleCall =>
       LET call == history'[Len(history')]
       IN  /\ (call.op = "AddFunction" /\ \E g \in functions_ : g.ranges = call.argument.ranges)
                => (call.returned = FALSE /\ Held(functions_') = Held(functions_))
           /\ call.op = "Write"
                => \A g \in functions_ :
                     Cardinality(FuncRecordsFor(contents', g.ranges[1])) = 1]_vars

\* C10, amended: AddFunction returns false and leaves the function set
\* unchanged when the module already holds a function with the same address,
\* the same stored name and pairwise-identical ranges, or, with
\* enable_multiple set, any function at the same address; with
\* enable_multiple unset a function whose ranges are held only under other
\* names is accepted and added; Write emits exactly one FUNC record for each
\* function held.
C10_DuplicateNameAndRanges ==
  [][ModuleCall =>
       LET call == history'[Len(history')]
           f == call.argument
           name == StoredName(f)
           same == {g \in functions_ : g.address = f.address /\ g.ranges = f.ranges}
       IN  /\ call.op = "AddFunction" =>
                /\ (\/ \E g \in same : g.name = name
                    \/ module.enable_multiple_field_ /\ \E g \in functions_ : g.address = f.address)
                     => (call.returned = FALSE /\ Held(functions_') = Held(functions_))
                /\ (/\ ~module.enable_multiple_field_
                    /\ same # {}
                    /\ \A g \in functions_ : g.address = f.address => g.name # name)
                     => /\ call.returned = TRUE
                        /\ Held(functions_') = Held(functions_) \cup {<<name, f.address, f.ranges>>}
           /\ call.op = "Write" =>
                /\ \A g \in functions_ :
                     Cardinality({i \in FuncRecordsFor(contents', g.ranges[1]) :
                                    contents'[i].name = g.name}) = 1
                /\ Cardinality({i \in DOMAIN contents' : contents'[i].keyword = "FUNC"})
                     = Cardinality(functions_)]_vars

\* A function was added twice under one name, the second call returned false,
\* and Write then emitted a single FUNC record.
C10_Witness ==
  /\ Len(history) = 3
  /\ history[1].op = "AddFunction" /\ history[1].returned
  /\ history[2].op = "AddFunction" /\ ~history[2].returned
  /\ history[2].argument = history[1].argument
  /\ history[3].op = "Write"
  /\ Cardinality({i \in DOMAIN contents : contents[i].keyword = "FUNC"}) = 1

\* The FUNC records of a Write output at the given address.
FuncRecordsAt(out, address) ==
  {i \in DOMAIN out : out[i].keyword = "FUNC" /\ out[i].address = address}

\* The addresses at which AddFunction was called with two different range lists.
AddressesAddedTwice ==
  {history[i].argument.address :
     i \in {j \in DOMAIN history :
              /\ history[j].op = "AddFunction"
              /\ \E k \in 1..(j - 1) :
                   /\ history[k].op = "AddFunction"
                   /\ history[k].argument.address = history[j].argument.address
                   /\ history[k].argument.ranges # history[j].argument.ranges}}

\* C11 as stated: a function added at the address of a function already held,
\* with other ranges than every function held there, is accepted and both are
\* retained; Write emits only one FUNC record for that address, marked m iff
\* enable_multiple is set.
C11_Original ==
  [][ModuleCall =>
       LET call == history'[Len(history')]
           f == call.argument
           at == {g \in functions_ : g.address = f.address}
       IN  /\ (call.op = "AddFunction" /\ at # {} /\ \A g \in at : g.ranges # f.ranges)
                => /\ call.returned = TRUE
                   /\ Held(functions_') = Held(functions_) \cup {<<StoredName(f), f.address, f.ranges>>}
           /\ call.op = "Write"
                => \A a \in AddressesAddedTwice :
                     /\ Cardinality(FuncRecordsAt(contents', a)) = 1
                     /\ \A i \in FuncRecordsAt(contents', a) :
                          contents'[i].m = module.enable_multiple_field_]_vars

\* The addresses at which an AddFunction call returned false.
AddressesRejected ==
  {history[i].argument.address :
     i \in {j \in DOMAIN history : history[j].op = "AddFunction" /\ ~history[j].returned}}

\* C11, amended: a function added at the address of a function already held,
\* under a name no function held there has, is accepted with enable_multiple
\* unset, both are retained, and Write emits a FUNC record for each function
\* held, none marked m; with enable_multiple set it is rejected, the function
\* held is marked multiple, and Write emits one FUNC record for that address,
\* marked m.
C11_SameAddressOtherName ==
  [][ModuleCall =>
       LET call == history'[Len(history')]
           f == call.argument
           name == StoredName(f)
           at == {g \in functions_ : g.address = f.address}
       IN  /\ (call.op = "AddFunction" /\ at # {} /\ \A g \in at : g.name # name) =>
                IF module.enable_multiple_field_
                  THEN /\ call.returned = FALSE
                       /\ Held(functions_') = Held(functions_)
                       /\ \A g \in functions_' : g.address = f.address => g.is_multiple
                  ELSE /\ call.returned = TRUE
                       /\ Held(functions_') = Held(functions_) \cup {<<name, f.address, f.ranges>>}
           /\ call.op = "Write" =>
                IF module.enable_multiple_field_
                  THEN /\ \A g \in functions_ : Cardinality(FuncRecordsAt(contents', g.address)) = 1
                       /\ \A a \in AddressesRejected :
                            /\ FuncRecordsAt(contents', a) # {}
                            /\ \A i \in FuncRecordsAt(contents', a) : contents'[i].m
                  ELSE \A a \in {g.address : g \in functions_} :
                         /\ Cardinality(FuncRecordsAt(contents', a))
                              = Cardinality({g \in functions_ : g.address = a})
                         /\ \A i \in FuncRecordsAt(contents', a) : ~contents'[i].m]_vars

\* Without enable_multiple two functions with different names and different
\* ranges were added at one address, both were accepted, and Write emitted
\* two FUNC records for that address.
C11_Witness ==
  /\ Len(history) = 3
  /\ ~module.enable_multiple_field_
  /\ history[1].op = "AddFunction" /\ history[1].returned
  /\ history[2].op = "AddFunction" /\ history[2].returned
  /\ history[2].argument.address = history[1].argument.address
  /\ history[2].argument.ranges # history[1].argument.ranges
  /\ history[2].argument.name # history[1].argument.name
  /\ history[3].op = "Write"
  /\ Cardinality(FuncRecordsAt(contents, history[1].argument.address)) = 2

\* The PUBLIC records of a Write output at the given address.
PublicRecordsAt(out, address) ==
  {i \in DOMAIN out : out[i].keyword = "PUBLIC" /\ out[i].address = address}

\* The calls before the last one were all AddExtern calls.
OnlyExternsAdded == \A i \in 1..(Len(history) - 1) : history[i].op = "AddExtern"

\* The AddExtern calls made at the given address, by position.
ExternCallsAt(address) ==
  {i \in DOMAIN history : history[i].op = "AddExtern" /\ history[i].argument.address = address}

FirstExternCallAt(address) ==
  CHOOSE i \in ExternCallsAt(address) : \A j \in ExternCallsAt(address) : i <= j

\* C12: after a sequence of AddExtern calls Write emits at most one PUBLIC
\* record per address, the addresses written are the addresses added, and the
\* record carries the name of the extern added first at its address.
C12_FirstExternKept ==
  (history # <<>> /\ history[Len(history)].op = "Write" /\ OnlyExternsAdded) =>
    \A a \in {e.address : e \in Externs} :
      /\ Cardinality(PublicRecordsAt(contents, a)) = IF ExternCallsAt(a) = {} THEN 0 ELSE 1
      /\ \A i \in PublicRecordsAt(contents, a) :
           contents[i].name = history[FirstExternCallAt(a)].argument.name

\* Two externs with different names were added at one address and Write
\* emitted one PUBLIC record, under the first name.
C12_Witness ==
  /\ Len(history) = 3
  /\ history[1].op = "AddExtern" /\ history[2].op = "AddExtern" /\ history[3].op = "Write"
  /\ history[1].argument.address = history[2].argument.address
  /\ history[1].argument.name # history[2].argument.name
  /\ \E i \in DOMAIN contents :
       /\ contents[i].keyword = "PUBLIC"
       /\ contents[i].name = history[1].argument.name

\* The last call was Write, so that contents is what the module now writes.
JustWritten == history # <<>> /\ history[Len(history)].op = "Write"

\* The number of functions and externs handed to the module at an address.
SymbolsAddedAt(address) ==
  Cardinality({i \in DOMAIN history : /\ history[i].op \in {"AddFunction", "AddExtern"}
                                      /\ history[i].argument.address = address})

\* The line carries the m marker right after its keyword.
HasMarker(line) == line[2] = "m"

FunctionAddresses ==
  {history[i].argument.address : i \in {j \in DOMAIN history : history[j].op = "AddFunction"}}

ExternAddresses ==
  {history[i].argument.address : i \in {j \in DOMAIN history : history[j].op = "AddExtern"}}

\* The names of the functions handed to AddFunction at the given address.
FunctionNamesAt(address) ==
  {history[i].argument.name :
     i \in {j \in DOMAIN history : /\ history[j].op = "AddFunction"
                                   /\ history[j].argument.address = address}}

\* At every address that got an extern and a function, Write emits a FUNC
\* record and no PUBLIC record; the record bears the extern's name under
\* prefer_extern_name and a function's own name otherwise.
FuncInsteadOfPublic ==
  \A a \in FunctionAddresses \cap ExternAddresses :
    /\ FuncRecordsAt(contents, a) # {}
    /\ PublicRecordsAt(contents, a) = {}
    /\ IF module.prefer_extern_name_
         THEN \E i \in FuncRecordsAt(contents, a) :
                contents[i].name = history[FirstExternCallAt(a)].argument.name
         ELSE \A i \in FuncRecordsAt(contents, a) : contents[i].name \in FunctionNamesAt(a)

\* The address is the Thumb form of the address of an added function.
ThumbOfFunction(address) ==
  /\ module.architecture = "arm"
  /\ address % 2 = 1
  /\ (address - 1) \in FunctionAddresses

ThumbPairs ==
  {b \in ExternAddresses : module.architecture = "arm" /\ b % 2 = 1 /\ (b - 1) \in FunctionAddresses}

MaxLines == 2

MaxEntries == 2

\* Module::Line { address, size, file, number }: the lines of a function at
\* the given address that cite the given files, pushed by descending address.
LinesOn(address, file_names) ==
  [k \in DOMAIN file_names |->
     [address |-> address + 4 * (Len(file_names) - k), size |-> 4,
      file |-> file_names[k], number |-> 40 + k]]

\* The functions added: one at 16 with up to MaxLines lines and one at 32
\* with up to one line, citing files the module holds.
FunctionsWithLines(files) ==
  {[Function("_without_form", 16, 16) EXCEPT !.lines = LinesOn(16, file_names)] :
     file_names \in SeqUpTo({file.name : file \in files}, MaxLines)}
  \cup
  {[Function("_and_void", 32, 16) EXCEPT !.lines = LinesOn(32, file_names)] :
     file_names \in SeqUpTo({file.name : file \in files}, 1)}

Rule(name, expression) == [name |-> name, expression |-> expression]

\* Module::StackFrameEntry
StackFrameEntry(address, size, initial_rules, rule_changes) ==
  [address |-> address, size |-> size, initial_rules |-> initial_rules,
   rule_changes |-> rule_changes]

\* The entries added: one below, one in and one above the address range; the
\* one in the range reaches past its end, as does one of its rule changes.
StackFrameEntries ==
  {StackFrameEntry(8, 16, {}, {}),
   StackFrameEntry(16, 32, {Rule("and", "what i want"), Rule(".cfa", "he was")},
                   {[address |-> 36, rules |-> {Rule("how", "do you"), Rule("Mister", "Death")}],
                    [address |-> 18, rules |-> {Rule(".cfa", "I think")}]}),
   StackFrameEntry(32, 16, {Rule(".cfa", "Whose woods")}, {})}

\* The externs added: one in and one above the address range.
ExternsApart == {Extern(24, "_xyz"), Extern(40, "_abc")}

\* The load address set: above the addresses 16 and 18, below the others.
LoadAddresses == {20}

\* The allowed range [16, 32).
AddressRanges == {<<Range(16, 16)>>}

WriteInit ==
  /\ module = Module("architecture", FALSE, FALSE)
  /\ functions_ = {}
  /\ externs_ = {}
  /\ contents = <<>>
  /\ history = <<>>
  /\ files_ = {}
  /\ stack_frame_entries_ = <<>>
  /\ load_address_ = 0
  /\ address_ranges_ = <<>>
  /\ written = FALSE

\* m.SetAddressRanges(address_ranges), before anything is added.
SetAddressRanges ==
  /\ ~written
  /\ address_ranges_ = <<>> /\ functions_ = {} /\ externs_ = {} /\ stack_frame_entries_ = <<>>
  /\ address_ranges_' \in AddressRanges
  /\ UNCHANGED <<module, functions_, externs_, contents, history, files_,
                 stack_frame_entries_, load_address_, written, procVars, reasonVars, dwarfVars, restVars>>

\* m.SetLoadAddress(load_address)
SetLoadAddress ==
  /\ ~written
  /\ load_address_' \in LoadAddresses \ {load_address_}
  /\ UNCHANGED <<module, functions_, externs_, contents, history, files_,
                 stack_frame_entries_, address_ranges_, written, procVars, reasonVars, dwarfVars, restVars>>

\* m.FindFile(name)
CallFindFile ==
  \E i \in DOMAIN FileNames :
    /\ ~written
    /\ files_' = FindFile(files_, FileNames[i])
    /\ files_' # files_
    /\ UNCHANGED <<module, functions_, externs_, contents, history,
                   stack_frame_entries_, load_address_, address_ranges_, written,
                   procVars, reasonVars, dwarfVars, restVars>>

\* A call the module turned down comes after the turned-down calls of lower
\* addresses, and at one address an entry comes before a function: the order
\* in which the test of the address ranges makes its calls.
TurnedDownRank(call) ==
  4 * call.argument.address + (IF call.op = "AddStackFrameEntry" THEN 0
                               ELSE IF call.op = "AddFunction" THEN 1 ELSE 2)

\* history with the call put down if the module turned it down.
WithTurnedDown(taken, call) == IF taken THEN history ELSE Append(history, call)

MayCall(taken, call) ==
  taken \/ \A i \in DOMAIN history : TurnedDownRank(history[i]) < TurnedDownRank(call)

\* m.AddFunction(function) for a function with lines
AddFunctionWithLines ==
  \E f \in FunctionsWithLines(files_) :
    LET r == AddFunctionTo(module, address_ranges_, functions_, externs_, f)
        call == [op |-> "AddFunction", argument |-> f, returned |-> r.returned]
    IN  /\ ~written
        /\ MayCall(AddressIsInModule(address_ranges_, f.address), call)
        /\ functions_' = r.functions
        /\ externs_' = r.externs
        /\ history' = WithTurnedDown(AddressIsInModule(address_ranges_, f.address), call)
        /\ UNCHANGED <<module, contents, files_, stack_frame_entries_,
                       load_address_, address_ranges_, written, procVars, reasonVars, dwarfVars, restVars>>

\* m.AddExtern(std::move(ext)) for an extern away from every function
AddExternApart ==
  \E ext \in ExternsApart :
    LET call == [op |-> "AddExtern", argument |-> ext, returned |-> TRUE]
    IN  /\ ~written
        /\ MayCall(AddressIsInModule(address_ranges_, ext.address), call)
        /\ externs_' = AddExternTo(module, address_ranges_, externs_, ext)
        /\ history' = WithTurnedDown(AddressIsInModule(address_ranges_, ext.address), call)
        /\ UNCHANGED <<module, functions_, contents, files_, stack_frame_entries_,
                       load_address_, address_ranges_, written, procVars, reasonVars, dwarfVars, restVars>>

\* m.AddStackFrameEntry(std::move(entry))
AddStackFrameEntry ==
  \E entry \in StackFrameEntries :
    LET call == [op |-> "AddStackFrameEntry", argument |-> entry, returned |-> TRUE]
    IN  /\ ~written
        /\ Len(stack_frame_entries_) < MaxEntries
        /\ MayCall(AddressIsInModule(address_ranges_, entry.address), call)
        /\ stack_frame_entries_' = AddStackFrameEntryTo(address_ranges_, stack_frame_entries_, entry)
        /\ history' = WithTurnedDown(AddressIsInModule(address_ranges_, entry.address), call)
        /\ UNCHANGED <<module, functions_, externs_, contents, files_,
                       load_address_, address_ranges_, written, procVars, reasonVars, dwarfVars, restVars>>

\* m.Write(s, ALL_SYMBOL_DATA, preserve_load_address)
WritePreserving ==
  \E preserve_load_address \in BOOLEAN :
    /\ ~written
    /\ files_' = AssignSourceIds(files_, functions_)
    /\ contents' = WriteOutput(files_', functions_, externs_, stack_frame_entries_,
                               load_address_, preserve_load_address)
    /\ written' = TRUE
    /\ history' = Append(history, [op |-> "Write",
                                   argument |-> [symbol_data |-> "ALL_SYMBOL_DATA",
                                                 preserve_load_address |-> preserve_load_address],
                                   returned |-> TRUE])
    /\ UNCHANGED <<module, functions_, externs_, stack_frame_entries_, load_address_,
                   address_ranges_, procVars, reasonVars, dwarfVars, restVars>>

InitWrite == ProcessIdle /\ ReasonIdle /\ WriteInit /\ DwarfIdle /\ RestIdle

NextWrite ==
  \/ SetAddressRanges
  \/ SetLoadAddress
  \/ CallFindFile
  \/ AddFunctionWithLines
  \/ AddExternApart
  \/ AddStackFrameEntry
  \/ WritePreserving

SpecWrite == InitWrite /\ [][NextWrite]_vars

\* ------------------------------------------------------------ claims C16-C19

\* The call of Write that produced contents.
WriteCall == history[Len(history)]

\* The output a module of the same files, functions, externs and entries
\* gives with load address 0.
Baseline == WriteOutput(files_, functions_, externs_, stack_frame_entries_, 0, FALSE)

\* A record with L taken off its address field, whatever its kind.
LessLoadAddress(r, L) == IF "address" \in DOMAIN r THEN [r EXCEPT !.address = @ - L] ELSE r

\* The records of the given kind in an output.
RecordsOf(out, keyword) == {i \in DOMAIN out : out[i].keyword = keyword}

\* C16: the output of Write is, line for line, the output for load address 0
\* with the load address subtracted modulo 2^64 from every address field
\* (FUNC, line, STACK CFI INIT, STACK CFI, PUBLIC), sizes unchanged, whenever
\* the load address was set; with preserve_load_address it is the output for
\* load address 0 itself.
C16_LoadAddressSubtracted ==
  written =>
    /\ Len(contents) = Len(Baseline)
    /\ \A i \in DOMAIN contents :
         Line(contents[i]) =
           Line(IF WriteCall.argument.preserve_load_address THEN Baseline[i]
                ELSE LessLoadAddress(Baseline[i], load_address_))

\* A module with a load address above some of its addresses has been written
\* without preserve_load_address, with records of every kind.
C16_Witness ==
  /\ written
  /\ load_address_ = 20
  /\ ~WriteCall.argument.preserve_load_address
  /\ \A keyword \in {"FUNC", "", "PUBLIC", "STACK CFI INIT", "STACK CFI"} :
       RecordsOf(contents, keyword) # {}
  /\ \E i \in RecordsOf(contents, "FUNC") : contents[i].address < 0
  /\ \E i \in RecordsOf(contents, "PUBLIC") : contents[i].address > 0

\* The names of the files some line of some function of the module refers to.
ReferencedFiles ==
  {name \in {file.name : file \in files_} :
     \E f \in functions_ : \E k \in DOMAIN f.lines : f.lines[k].file = name}

\* The files of the module with a source id.
NumberedFiles == {file \in files_ : file.source_id >= 0}

\* C17: once Write has assigned the source ids, exactly the files some line
\* of some function refers to have an id >= 0; these ids are 0..k-1 without
\* a gap, ascending with the file name; every other file has id -1; and the
\* output has one FILE record for each referenced file and none for the
\* others.
C17_SourceIds ==
  written =>
    /\ \A file \in files_ : file.source_id >= 0 <=> file.name \in ReferencedFiles
    /\ \A file \in files_ : file.name \notin ReferencedFiles => file.source_id = -1
    /\ {file.source_id : file \in NumberedFiles} = 0..(Cardinality(ReferencedFiles) - 1)
    /\ \A x, y \in NumberedFiles :
         FileRank(x.name) < FileRank(y.name) => x.source_id < y.source_id
    /\ \A file \in files_ :
         Cardinality({i \in RecordsOf(contents, "FILE") : contents[i].name = file.name})
           = IF file.name \in ReferencedFiles THEN 1 ELSE 0
    /\ \A i \in RecordsOf(contents, "FILE") :
         \E file \in NumberedFiles : Line(contents[i]) = <<"FILE", Dec(file.source_id), file.name>>

\* Three files were found and a function whose lines refer to the last and
\* then to the first of them was written.
C17_Witness ==
  /\ written
  /\ {file.name : file \in files_} = {"filename1", "filename2", "filename3"}
  /\ \E f \in functions_ :
       /\ Len(f.lines) = 2
       /\ f.lines[1].file = "filename3"
       /\ f.lines[2].file = "filename1"
  /\ ReferencedFiles = {"filename1", "filename3"}
  /\ \E i, j \in RecordsOf(contents, "FILE") :
       /\ Line(contents[i]) = <<"FILE", "0", "filename1">>
       /\ Line(contents[j]) = <<"FILE", "1", "filename3">>

\* The address lies in one of the configured ranges [address, address + size).
InSomeRange(address) ==
  \E i \in DOMAIN address_ranges_ :
    /\ address_ranges_[i].address <= address
    /\ address < address_ranges_[i].address + address_ranges_[i].size

\* The address of a record of contents before relocation.
AddressBeforeRelocation(i) ==
  contents[i].address + (IF WriteCall.argument.preserve_load_address THEN 0 ELSE load_address_)

\* The calls the module turned down before Write.
TurnedDown == {history[k] : k \in 1..(Len(history) - 1)}

\* The record kind an added item is written as.
KeywordOf(call) ==
  IF call.op = "AddFunction" THEN "FUNC"
  ELSE IF call.op = "AddExtern" THEN "PUBLIC" ELSE "STACK CFI INIT"

\* C18: with address ranges set, every FUNC, PUBLIC and STACK CFI INIT record
\* written has its address, before relocation, in a range [begin, begin+size);
\* an item added with its address outside every range has no record, and a
\* file only such a function refers to has no FILE record; an entry held for
\* its start address is written whole, with its size and all its rule
\* changes, even past the end of the range.
C18_AddressRangeFilter ==
  (written /\ address_ranges_ # <<>>) =>
    /\ \A i \in DOMAIN contents :
         contents[i].keyword \in {"FUNC", "PUBLIC", "STACK CFI INIT"}
           => InSomeRange(AddressBeforeRelocation(i))
    /\ \A call \in TurnedDown :
         /\ ~InSomeRange(call.argument.address)
         /\ \A i \in RecordsOf(contents, KeywordOf(call)) :
              AddressBeforeRelocation(i) # call.argument.address
    /\ \A i \in RecordsOf(contents, "FILE") :
         \E f \in functions_ :
           /\ InSomeRange(f.address)
           /\ \E k \in DOMAIN f.lines : f.lines[k].file = contents[i].name
    /\ \A e \in DOMAIN stack_frame_entries_ :
         LET entry == stack_frame_entries_[e]
         IN  /\ \E i \in RecordsOf(contents, "STACK CFI INIT") :
                  /\ AddressBeforeRelocation(i) = entry.address
                  /\ contents[i].size = entry.size
             /\ \A delta \in entry.rule_changes :
                  \E i \in RecordsOf(contents, "STACK CFI") :
                    AddressBeforeRelocation(i) = delta.address

\* A module with the range [16, 32) was written after an entry below it, an
\* entry and a function at its end and an extern above it were turned down,
\* the function referring to a file, and with a function, an extern and an
\* entry reaching past the end in the range.
C18_Witness ==
  /\ written
  /\ address_ranges_ = <<Range(16, 16)>>
  /\ {<<call.op, call.argument.address>> : call \in TurnedDown}
       = {<<"AddStackFrameEntry", 8>>, <<"AddStackFrameEntry", 32>>,
          <<"AddFunction", 32>>, <<"AddExtern", 40>>}
  /\ \E call \in TurnedDown :
       /\ call.op = "AddFunction"
       /\ Len(call.argument.lines) = 1
       /\ call.argument.lines[1].file \notin ReferencedFiles
  /\ \E i \in RecordsOf(contents, "FUNC") : AddressBeforeRelocation(i) = 16
  /\ \E i \in RecordsOf(contents, "PUBLIC") : AddressBeforeRelocation(i) = 24
  /\ \E i \in RecordsOf(contents, "STACK CFI INIT") :
       AddressBeforeRelocation(i) = 16 /\ contents[i].size = 32
  /\ \E i \in RecordsOf(contents, "STACK CFI") : AddressBeforeRelocation(i) = 36

\* The positions of the records of the given kind, in output order.
RECURSIVE PositionsOf(_, _, _)
PositionsOf(out, keyword, from) ==
  IF from > Len(out) THEN <<>>
  ELSE (IF out[from].keyword = keyword THEN <<from>> ELSE <<>>)
       \o PositionsOf(out, keyword, from + 1)

\* The records of the given kind come by ascending address before relocation.
AscendingAddresses(keyword) ==
  \A i, j \in RecordsOf(contents, keyword) :
    i < j => AddressBeforeRelocation(i) <= AddressBeforeRelocation(j)

\* The rules of every STACK CFI INIT and STACK CFI record come by ascending
\* rule name.
RulesSortedByName ==
  \A i \in RecordsOf(contents, "STACK CFI INIT") \cup RecordsOf(contents, "STACK CFI") :
    \A a, b \in DOMAIN contents[i].rules :
      a < b => RuleRank(contents[i].rules[a].name) < RuleRank(contents[i].rules[b].name)

\* C19 as stated: FUNC, PUBLIC and STACK CFI INIT records each come by
\* ascending address, and the rules of each CFI record by rule name.
C19_Original ==
  written =>
    /\ AscendingAddresses("FUNC")
    /\ AscendingAddresses("PUBLIC")
    /\ AscendingAddresses("STACK CFI INIT")
    /\ RulesSortedByName

\* C19, amended: the FUNC records come by ascending primary address and the
\* PUBLIC records by ascending address, both taken before relocation; the
\* STACK CFI INIT records come in the order the entries were added, whatever
\* their addresses, each followed by its STACK CFI records by ascending
\* address; the rules of each CFI record come by rule name.
C19_CfiInOrderAdded ==
  written =>
    /\ AscendingAddresses("FUNC")
    /\ AscendingAddresses("PUBLIC")
    /\ LET inits == PositionsOf(contents, "STACK CFI INIT", 1)
       IN  /\ Len(inits) = Len(stack_frame_entries_)
           /\ \A e \in DOMAIN inits :
                /\ AddressBeforeRelocation(inits[e]) = stack_frame_entries_[e].address
                /\ contents[inits[e]].size = stack_frame_entries_[e].size
    /\ \A i, j \in RecordsOf(contents, "STACK CFI") :
         (i < j /\ \A k \in i..j : contents[k].keyword = "STACK CFI")
           => AddressBeforeRelocation(i) < AddressBeforeRelocation(j)
    /\ RulesSortedByName

\* Two functions, two externs and two entries were written, the entry of the
\* higher address added first, the other one with two rules and two rule
\* changes.
C19_Witness ==
  /\ written
  /\ Cardinality(RecordsOf(contents, "FUNC")) = 2
  /\ Cardinality(RecordsOf(contents, "PUBLIC")) = 2
  /\ Len(stack_frame_entries_) = 2
  /\ stack_frame_entries_[1].address = 32
  /\ stack_frame_entries_[2].address = 16
  /\ LET inits == PositionsOf(contents, "STACK CFI INIT", 1)
     IN  /\ Len(inits) = 2
         /\ AddressBeforeRelocation(inits[1]) = 32
         /\ AddressBeforeRelocation(inits[2]) = 16
         /\ Len(contents[inits[2]].rules) = 2
  /\ Cardinality(RecordsOf(contents, "STACK CFI")) = 2

\* ======================================================================
\* CompilationUnit::Start, as the tests of
\* src/common/dwarf/dwarf2reader_die_unittest.cc drive it: the test builds
\* one unit in .debug_info, after some padding, and calls Start on a
\* CompilationUnit constructed for the unit's offset.  An offset in the
\* section counts from 0; the byte at offset k is info_contents[k + 1].  A
\* uint32_t is held as the int32_t with the same bits; the lengths and
\* offsets of the units built are far below 2^31.
\* ======================================================================

\* struct DwarfHeaderParams
DwarfHeaderParams(endianness, format_size, version, address_size, header_type) ==
  [endianness |-> endianness, format_size |-> format_size, version |-> version,
   address_size |-> address_size, header_type |-> header_type]

\* The unit types, DW_UT_compile being 1 and DW_UT_type 2.
DwarfUnitTypes == <<"DW_UT_compile", "DW_UT_type">>

\* Every endianness, offset size, version and address size; the unit type is
\* written from version 5 on only.
HeaderVariants ==
  {DwarfHeaderParams(endianness, format_size, version, address_size, "DW_UT_compile") :
     endianness \in {"kLittleEndian", "kBigEndian"}, format_size \in {4, 8},
     version \in 2..5, address_size \in {4, 8}}
  \cup
  {DwarfHeaderParams(endianness, format_size, 5, address_size, "DW_UT_type") :
     endianness \in {"kLittleEndian", "kBigEndian"}, format_size \in {4, 8},
     address_size \in {4, 8}}

\* The offsets a unit is put at.
UnitOffsets == {0, 98}

\* info.Append(n, '*')
Padding(n) == [i \in 1..n |-> 42]

\* .AppendCString("sam")
Sam == <<115, 97, 109, 0>>

\* What follows the header: a DIE of abbreviation 1 with its name and the end
\* of its children; the same with a child; the same with two childless
\* children; one childless DIE; a DIE of abbreviation 0x41.
DieBodies ==
  {<<1>> \o Sam \o <<0>>,
   <<1>> \o Sam \o <<1>> \o Sam \o <<0, 0>>,
   <<1>> \o Sam \o <<2, 2, 0>>,
   <<2>>,
   <<65>> \o Sam \o <<0>>}

\* The abbreviations the tests declare: code 1 and code 0x41, each with
\* children and a DW_AT_name of DW_FORM_string, and a childless one with an
\* attribute of DW_FORM_flag_present, here under code 2.
Abbrevs ==
  (1 :> [tag |-> "DW_TAG_compile_unit", has_children |-> TRUE,
         attributes |-> <<[name |-> "DW_AT_name", form |-> "DW_FORM_string"]>>])
  @@ (2 :> [tag |-> "0x3e449ac2", has_children |-> FALSE,
            attributes |-> <<[name |-> "0x359d1972", form |-> "DW_FORM_flag_present"]>>])
  @@ (65 :> [tag |-> "DW_TAG_type_unit", has_children |-> TRUE,
             attributes |-> <<[name |-> "DW_AT_name", form |-> "DW_FORM_string"]>>])

\* The bytes of a value, least significant first.
RECURSIVE LittleEndianBytes(_, _)
LittleEndianBytes(value, size) ==
  IF size = 0 THEN <<>>
  ELSE <<value % 256>> \o LittleEndianBytes(value \div 256, size - 1)

Reversed(bytes) == [i \in 1..Len(bytes) |-> bytes[Len(bytes) + 1 - i]]

\* Section::D16, D32, D64: a value in the section's endianness.
Bytes(value, size, endianness) ==
  IF endianness = "kLittleEndian" THEN LittleEndianBytes(value, size)
  ELSE Reversed(LittleEndianBytes(value, size))

\* The initial length: four bytes, or 0xffffffff and eight bytes.
InitialLength(length, format_size, endianness) ==
  IF format_size = 4 THEN Bytes(length, 4, endianness)
  ELSE Bytes(-1, 4, endianness) \o Bytes(length, 8, endianness)

\* TestCompilationUnit::Header after the initial length: the version, then
\* the abbreviation offset and the address size, or from version 5 on the
\* unit type, the address size and the abbreviation offset.
HeaderAfterLength(params, abbrev_offset) ==
  Bytes(params.version, 2, params.endianness)
  \o (IF params.version <= 4
        THEN Bytes(abbrev_offset, params.format_size, params.endianness)
             \o <<params.address_size>>
        ELSE <<CHOOSE t \in DOMAIN DwarfUnitTypes : DwarfUnitTypes[t] = params.header_type>>
             \o <<params.address_size>>
             \o Bytes(abbrev_offset, params.format_size, params.endianness))

\* info.Header(...) ... info.Finish(): the unit, its length being that of all
\* that follows the initial length.
TestCompilationUnit(params, body) ==
  LET rest == HeaderAfterLength(params, 0) \o body
  IN  InitialLength(Len(rest), params.format_size, params.endianness) \o rest

\* The value of bytes given most significant first.
RECURSIVE BigEndianValue(_)
BigEndianValue(bytes) ==
  IF bytes = <<>> THEN 0
  ELSE BigEndianValue(SubSeq(bytes, 1, Len(bytes) - 1)) * 256 + bytes[Len(bytes)]

\* ByteReader::ReadTwoBytes, ReadEightBytes
ReadBytes(bytes, endianness) ==
  BigEndianValue(IF endianness = "kLittleEndian" THEN Reversed(bytes) ELSE bytes)

\* ByteReader::ReadFourBytes: the uint32_t, held as an int32_t.
ReadFourBytes(bytes, endianness) ==
  LET b == IF endianness = "kLittleEndian" THEN Reversed(bytes) ELSE bytes
  IN  (IF b[1] >= 128 THEN b[1] - 256 ELSE b[1]) * 16777216 + BigEndianValue(Tail(b))

\* ByteReader::ReadOffset
ReadOffset(bytes, endianness) ==
  IF Len(bytes) = 4 THEN ReadFourBytes(bytes, endianness) ELSE ReadBytes(bytes, endianness)

\* ByteReader::ReadInitialLength: 0xffffffff announces an eight-byte length
\* and eight-byte offsets.
ReadInitialLength(buffer, endianness) ==
  LET initial_length == ReadFourBytes(SubSeq(buffer, 1, 4), endianness)
  IN  IF initial_length = -1
        THEN [length |-> ReadBytes(SubSeq(buffer, 5, 12), endianness),
              offset_size |-> 8, initial_length_size |-> 12]
        ELSE [length |-> initial_length, offset_size |-> 4, initial_length_size |-> 4]

\* CompilationUnit::ReadHeader on the bytes from the unit's offset on.
ReadHeader(buffer, endianness) ==
  LET initial == ReadInitialLength(buffer, endianness)
      at == initial.initial_length_size
      version == ReadBytes(SubSeq(buffer, at + 1, at + 2), endianness)
      size == initial.offset_size
  IN  IF version <= 4
        THEN [length |-> initial.length, offset_size |-> size, version |-> version,
              unit_type |-> "DW_UT_compile",
              abbrev_offset |-> ReadOffset(SubSeq(buffer, at + 3, at + 2 + size), endianness),
              address_size |-> buffer[at + 3 + size],
              header_size |-> at + 3 + size]
        ELSE [length |-> initial.length, offset_size |-> size, version |-> version,
              unit_type |-> DwarfUnitTypes[buffer[at + 3]],
              address_size |-> buffer[at + 4],
              abbrev_offset |-> ReadOffset(SubSeq(buffer, at + 5, at + 4 + size), endianness),
              header_size |-> at + 4 + size]

\* The length alone, without the initial length field.
LengthAlone(header) == header.length

\* ourlength: the length of the unit and the size of the initial length
\* field, which Start returns.
OurLength(header) == header.length + (IF header.offset_size = 8 THEN 12 ELSE 4)

\* No unit is taken for a type unit.
NeverTypeUnit(header) == FALSE

\* The unit is a DWARF 5 type unit, whose DIEs Start skips.
IsTypeUnit(header) == header.version = 5 /\ header.unit_type = "DW_UT_type"

\* ByteReader::ReadUnsignedLEB128 at an offset: the value and its length.
RECURSIVE ReadUnsignedLEB128(_, _)
ReadUnsignedLEB128(buffer, at) ==
  LET byte == buffer[at + 1]
  IN  IF byte < 128 THEN [value |-> byte, len |-> 1]
      ELSE LET rest == ReadUnsignedLEB128(buffer, at + 1)
           IN  [value |-> (byte - 128) + 128 * rest.value, len |-> 1 + rest.len]

\* The bytes of the string at an offset, without its terminating zero.
RECURSIVE ReadCString(_, _)
ReadCString(buffer, at) ==
  IF buffer[at + 1] = 0 THEN <<>> ELSE <<buffer[at + 1]>> \o ReadCString(buffer, at + 1)

\* CompilationUnit::ProcessAttribute for the one attribute of a DIE: the call
\* the handler gets and the bytes the value takes.  DW_FORM_flag_present
\* occupies no space in the DIE.
ProcessAttribute(buffer, at, offset, attribute) ==
  IF attribute.form = "DW_FORM_flag_present"
    THEN [call |-> [call |-> "ProcessAttributeUnsigned", offset |-> offset,
                    attr |-> attribute.name, form |-> attribute.form, data |-> 1],
          len |-> 0]
    ELSE LET data == ReadCString(buffer, at)
         IN  [call |-> [call |-> "ProcessAttributeString", offset |-> offset,
                        attr |-> attribute.name, form |-> attribute.form, data |-> data],
              len |-> Len(data) + 1]

\* The attribute is reported before the DIE is.
AttributesFirst(calls, start, attribute) == calls \o <<attribute, start>>

\* The calls once a DIE is begun: StartDIE, then its attribute.
StartedDIE(calls, start, attribute) == calls \o <<start, attribute>>

\* CompilationUnit::ProcessDIEs from dieptr up to lengthptr: the calls the
\* handler gets.  The handler answers true to every StartDIE.
RECURSIVE ProcessDIEs(_, _, _, _, _)
ProcessDIEs(buffer, dieptr, lengthptr, die_stack, calls) ==
  IF dieptr >= lengthptr THEN calls
  ELSE
    LET abbrev_num == ReadUnsignedLEB128(buffer, dieptr)
    IN  IF abbrev_num.value = 0
          THEN IF die_stack = <<>> THEN calls
               ELSE ProcessDIEs(buffer, dieptr + abbrev_num.len, lengthptr,
                                SubSeq(die_stack, 1, Len(die_stack) - 1),
                                Append(calls, [call |-> "EndDIE",
                                               offset |-> die_stack[Len(die_stack)]]))
          ELSE
            LET abbrev == Abbrevs[abbrev_num.value]
                attribute == ProcessAttribute(buffer, dieptr + abbrev_num.len, dieptr,
                                              abbrev.attributes[1])
                after == dieptr + abbrev_num.len + attribute.len
                started == StartedDIE(calls, [call |-> "StartDIE", offset |-> dieptr,
                                              tag |-> abbrev.tag], attribute.call)
            IN  IF abbrev.has_children
                  THEN ProcessDIEs(buffer, after, lengthptr, Append(die_stack, dieptr), started)
                  ELSE ProcessDIEs(buffer, after, lengthptr, die_stack,
                                   Append(started, [call |-> "EndDIE", offset |-> dieptr]))

\* The test has built its section; no parser has run.
DwarfInit ==
  \E params \in HeaderVariants, offset \in UnitOffsets, body \in DieBodies, wanted \in BOOLEAN :
    /\ unit = [params |-> params, offset |-> offset, body |-> body, wanted |-> wanted]
    /\ info_contents = Padding(offset) \o TestCompilationUnit(params, body)
    /\ handler_calls = <<>>
    /\ start_returned = -1

\* CompilationUnit parser("", MakeSectionMap(), offset, &byte_reader,
\* &handler); parser.Start(): the header is read, the handler is told of the
\* unit and, unless it declines the unit or the unit is a type unit, of its
\* DIEs; ourlength is returned.
Start ==
  /\ start_returned = -1
  /\ LET offset_from_section_start_ == unit.offset
         endianness == unit.params.endianness
         header == ReadHeader(SubSeq(info_contents, offset_from_section_start_ + 1,
                                     Len(info_contents)), endianness)
         ourlength == OurLength(header)
         started == <<[call |-> "StartCompilationUnit",
                       offset |-> offset_from_section_start_,
                       address_size |-> header.address_size,
                       offset_size |-> header.offset_size,
                       cu_length |-> header.length,
                       dwarf_version |-> header.version]>>
     IN  /\ handler_calls' =
              IF ~unit.wanted \/ IsTypeUnit(header)
                THEN started
                ELSE ProcessDIEs(info_contents,
                                 offset_from_section_start_ + header.header_size,
                                 offset_from_section_start_ + ourlength, <<>>, started)
         /\ start_returned' = ourlength
  /\ UNCHANGED <<unit, info_contents, procVars, reasonVars, moduleVars, restVars>>

InitDwarf == ProcessIdle /\ ReasonIdle /\ ModuleIdle /\ DwarfInit /\ RestIdle

NextDwarf == Start

SpecDwarf == InitDwarf /\ [][NextDwarf]_vars

\* The unit_length of the unit built: the bytes of the version, of the unit
\* type from version 5 on, of the abbreviation offset, of the address size
\* and of the DIEs.
UnitLength ==
  2 + (IF unit.params.version >= 5 THEN 1 ELSE 0) + unit.params.format_size + 1
    + Len(unit.body)

\* C20: for every endianness, offset size, version 2 to 5 and address size,
\* Start returns the unit_length plus the size of the initial length field,
\* 4 bytes with 4-byte offsets and 12 with 8-byte offsets, and the unit's
\* offset plus that is the end of the unit, at offset 0 as elsewhere.
C20_StartReturnsWholeUnit ==
  start_returned # -1 =>
    /\ start_returned = UnitLength + (IF unit.params.format_size = 8 THEN 12 ELSE 4)
    /\ unit.offset + start_returned = Len(info_contents)

\* Start has returned for a big-endian version 5 unit with 8-byte offsets
\* that does not start at offset 0, and the handler was told of its DIE.
C20_Witness ==
  /\ start_returned = UnitLength + 12
  /\ unit.offset = 98
  /\ unit.params = DwarfHeaderParams("kBigEndian", 8, 5, 8, "DW_UT_compile")
  /\ Len(handler_calls) > 1
  /\ handler_calls[1] = [call |-> "StartCompilationUnit", offset |-> 98, address_size |-> 8,
                         offset_size |-> 8, cu_length |-> UnitLength, dwarf_version |-> 5]

\* The calls of the given name the handler received.
CallsOf(name) == {i \in DOMAIN handler_calls : handler_calls[i].call = name}

\* C21: for a DWARF 5 unit of type DW_UT_type, Start calls
\* StartCompilationUnit exactly once and makes no other call, no StartDIE, no
\* attribute callback and no EndDIE, and returns the whole length of the
\* unit, so that the unit's offset plus the result is the end of the unit.
C21_TypeUnitSkipped ==
  (start_returned # -1 /\ unit.params.version = 5 /\ unit.params.header_type = "DW_UT_type") =>
    /\ Cardinality(CallsOf("StartCompilationUnit")) = 1
    /\ Len(handler_calls) = 1
    /\ start_returned = UnitLength + (IF unit.params.format_size = 8 THEN 12 ELSE 4)
    /\ unit.offset + start_returned = Len(info_contents)

\* Start has returned for a type unit that holds a DIE and that the handler
\* took.
C21_Witness ==
  /\ start_returned # -1
  /\ unit.params.version = 5
  /\ unit.params.header_type = "DW_UT_type"
  /\ unit.wanted
  /\ unit.body = <<65>> \o Sam \o <<0>>
  /\ handler_calls = <<[call |-> "StartCompilationUnit", offset |-> unit.offset,
                        address_size |-> unit.params.address_size,
                        offset_size |-> unit.params.format_size,
                        cu_length |-> UnitLength, dwarf_version |-> 5]>>

\* The attribute callbacks of Dwarf2Handler.
AttributeCalls ==
  {"ProcessAttributeUnsigned", "ProcessAttributeSigned", "ProcessAttributeReference",
   "ProcessAttributeBuffer", "ProcessAttributeString", "ProcessAttributeSignature"}

\* The calls from the i-th on are those of DIEs in preorder, given the DIEs
\* begun and not yet ended, innermost last, each with whether its attributes
\* may still come, and the offset of the DIE begun last: a StartDIE begins a
\* DIE further on in the section, inside the innermost open DIE, whose
\* attributes are then over; an attribute callback bears the offset of the
\* innermost open DIE; an EndDIE ends the innermost open DIE; at the end
\* no DIE is open.
RECURSIVE Preorder(_, _, _)
Preorder(i, open, last) ==
  IF i > Len(handler_calls) THEN open = <<>>
  ELSE
    LET c == handler_calls[i]
        top == open[Len(open)]
        outer == SubSeq(open, 1, Len(open) - 1)
    IN  IF c.call = "StartDIE"
          THEN /\ c.offset > last
               /\ Preorder(i + 1,
                           (IF open = <<>> THEN <<>>
                            ELSE Append(outer, [top EXCEPT !.attributes = FALSE]))
                           \o <<[offset |-> c.offset, attributes |-> TRUE]>>,
                           c.offset)
        ELSE IF c.call \in AttributeCalls
          THEN /\ open # <<>>
               /\ top.offset = c.offset
               /\ top.attributes
               /\ Preorder(i + 1, open, last)
        ELSE IF c.call = "EndDIE"
          THEN /\ open # <<>>
               /\ top.offset = c.offset
               /\ Preorder(i + 1, outer, last)
        ELSE FALSE

\* C22: once Start has returned, the first call the handler got is
\* StartCompilationUnit, the only one of its kind, and the calls after it
\* are those of the DIEs in preorder: StartDIE, the DIE's attribute
\* callbacks, the calls of its children, its EndDIE; each StartDIE has its
\* one EndDIE of the same offset and every attribute callback lies between
\* the StartDIE and the EndDIE of its DIE.
C22_DiePreorder ==
  start_returned # -1 =>
    /\ handler_calls # <<>>
    /\ CallsOf("StartCompilationUnit") = {1}
    /\ Preorder(2, <<>>, -1)
    /\ \A i \in CallsOf("StartDIE") :
         Cardinality({j \in CallsOf("EndDIE") :
                        j > i /\ handler_calls[j].offset = handler_calls[i].offset}) = 1

\* Start has returned for a compile unit whose DIE has a name and two
\* childless children: ten calls, the DIE's EndDIE last.
C22_Witness ==
  /\ start_returned # -1
  /\ unit.wanted
  /\ unit.params.header_type = "DW_UT_compile"
  /\ unit.body = <<1>> \o Sam \o <<2, 2, 0>>
  /\ Len(handler_calls) = 10
  /\ <<handler_calls[2].call, handler_calls[3].call, handler_calls[4].call>>
       = <<"StartDIE", "ProcessAttributeString", "StartDIE">>
  /\ handler_calls[10] = [call |-> "EndDIE", offset |-> handler_calls[2].offset]
  /\ Cardinality(CallsOf("EndDIE")) = 3

\* ======================================================================
\* RangeListReader::ReadRanges, as the RangeList tests of
\* src/common/dwarf/dwarf2reader_die_unittest.cc drive it: big-endian
\* sections, 4-byte addresses and offsets.  The address 0xffffffff is held as
\* the int32_t -1.
\* ======================================================================

\* The number of pairs of a .debug_ranges list before its terminator, and of
\* ReadRanges calls on one reader.
MaxPairs == 3

MaxReads == 3

\* The pairs of a DWARF 4 range list: a range, a base address selection, and
\* a range that lies before the first.
RangePairs == {<<1, 2>>, <<-1, 3>>, <<0, 1>>}

\* ranges.D32(a).D32(b) for each pair, then D32(0).D32(0).
RECURSIVE DebugRanges(_)
DebugRanges(pairs) ==
  IF pairs = <<>> THEN Bytes(0, 4, "kBigEndian") \o Bytes(0, 4, "kBigEndian")
  ELSE Bytes(Head(pairs)[1], 4, "kBigEndian") \o Bytes(Head(pairs)[2], 4, "kBigEndian")
       \o DebugRanges(Tail(pairs))

\* ranges.Append("padding offset")
PaddingOffset == <<112, 97, 100, 100, 105, 110, 103, 32, 111, 102, 102, 115, 101, 116>>

\* RangeListReader::CURangesInfo
CURangesInfo(version_, base_address_, ranges_base_, buffer_, addr_buffer_, addr_base_) ==
  [version_ |-> version_, base_address_ |-> base_address_, ranges_base_ |-> ranges_base_,
   buffer_ |-> buffer_, size_ |-> Len(buffer_), addr_buffer_ |-> addr_buffer_,
   addr_buffer_size_ |-> Len(addr_buffer_), addr_base_ |-> addr_base_]

\* The DWARF 4 compilation units of the test: a list after the padding.
Dwarf4Units ==
  {CURangesInfo(4, 1, 0, PaddingOffset \o DebugRanges(pairs), <<>>, 0) :
     pairs \in SeqUpTo(RangePairs, MaxPairs)}

\* handler_->AddRange(begin, end)
AddRange(begin, end) == [call |-> "AddRange", begin |-> begin, end |-> end]

\* The range is reported without the base address.
AddRangeUnbased(base, begin, end) == AddRange(begin, end)

\* A range of a DWARF 4 list is reported relative to the base address.
AddRangeBased(base, begin, end) == AddRange(base + begin, base + end)

\* RangeListReader::ReadDebugRanges from an offset in .debug_ranges: pairs of
\* addresses are read up to the pair (0, 0); a pair whose first address is the
\* largest address sets the base address, any other is reported; then the
\* handler is told to finish.  A list that runs into the end of the section
\* fails.
RECURSIVE ReadDebugRanges(_, _, _, _)
ReadDebugRanges(buffer, offset, base, calls) ==
  IF offset + 8 > Len(buffer) THEN [returned |-> FALSE, calls |-> calls]
  ELSE
    LET entry_begin == ReadFourBytes(SubSeq(buffer, offset + 1, offset + 4), "kBigEndian")
        entry_end == ReadFourBytes(SubSeq(buffer, offset + 5, offset + 8), "kBigEndian")
    IN  IF entry_begin = 0 /\ entry_end = 0
          THEN [returned |-> TRUE, calls |-> Append(calls, [call |-> "Finish"])]
        ELSE IF entry_begin = -1
          THEN ReadDebugRanges(buffer, offset + 8, entry_end, calls)
        ELSE ReadDebugRanges(buffer, offset + 8, base,
                             Append(calls, AddRangeBased(base, entry_begin, entry_end)))

\* The DW_RLE_ entry kinds, DW_RLE_end_of_list being 0.
RangeListEntries ==
  <<"DW_RLE_end_of_list", "DW_RLE_base_addressx", "DW_RLE_startx_endx",
    "DW_RLE_startx_length", "DW_RLE_offset_pair", "DW_RLE_base_address",
    "DW_RLE_start_end", "DW_RLE_start_length">>

\* rnglists.D8(entry)
RLE(entry) == (CHOOSE i \in DOMAIN RangeListEntries : RangeListEntries[i] = entry) - 1

D32(value) == Bytes(value, 4, "kBigEndian")

\* addr.D32(0).D32(1).D32(2).D32(3).D32(4): .debug_addr, read from
\* addr_base_ 4 on.
AddrContents == D32(0) \o D32(1) \o D32(2) \o D32(3) \o D32(4)

\* The list of the tests that uses the indexed entries: base address 1,
\* [2, 3), [4, 5), [6, 7).
IndexedList ==
  <<RLE("DW_RLE_base_addressx"), 0, RLE("DW_RLE_startx_endx"), 1, 2,
    RLE("DW_RLE_startx_length"), 3, 1, RLE("DW_RLE_offset_pair"), 5, 6,
    RLE("DW_RLE_end_of_list")>>

\* The list of the tests that gives its addresses in place: base address b,
\* [b+1, b+2), [b+2, b+3), [b+4, b+5).
AddressedList(b) ==
  <<RLE("DW_RLE_base_address")>> \o D32(b) \o <<RLE("DW_RLE_offset_pair"), 1, 2>>
  \o <<RLE("DW_RLE_start_end")>> \o D32(b + 2) \o D32(b + 3)
  \o <<RLE("DW_RLE_start_length")>> \o D32(b + 4) \o <<1, RLE("DW_RLE_end_of_list")>>

\* The header of a .debug_rnglists unit and what follows it: the length of
\* the rest, version 5, address size 4, segment selector size 0, the offset
\* entry count.
RngListsUnit(offset_entry_count, rest) ==
  D32(8 + Len(rest)) \o Bytes(5, 2, "kBigEndian") \o <<4, 0>> \o D32(offset_entry_count) \o rest

\* A unit with two offset entries for its two lists.
IndexedUnit(b) ==
  RngListsUnit(2, D32(8) \o D32(8 + Len(IndexedList)) \o IndexedList \o AddressedList(b))

\* A unit without offset entries, its lists in one.
PlainUnit(b) ==
  RngListsUnit(0, SubSeq(IndexedList, 1, Len(IndexedList) - 1) \o AddressedList(b))

\* The DWARF 5 compilation units of the tests: two units in .debug_rnglists,
\* with offset entries and ranges_base_ after the header of the first or of
\* the second, or without offset entries.
Dwarf5Units ==
  {CURangesInfo(5, 1, ranges_base_, IndexedUnit(8) \o IndexedUnit(15), AddrContents, 4) :
     ranges_base_ \in {12, Len(IndexedUnit(8)) + 12}}
  \cup {CURangesInfo(5, 1, 0, PlainUnit(8) \o PlainUnit(15), AddrContents, 4)}

\* The address of the given index in .debug_addr.
AddrAt(info, index) ==
  ReadFourBytes(SubSeq(info.addr_buffer_, info.addr_base_ + 4 * index + 1,
                       info.addr_base_ + 4 * index + 4), "kBigEndian")

\* RangeListReader::ReadDebugRngList from an offset in .debug_rnglists: the
\* entries are read up to DW_RLE_end_of_list, then the handler is told to
\* finish.  An unknown entry or a list that runs into the end of the section
\* fails.
RECURSIVE ReadDebugRngList(_, _, _, _)
ReadDebugRngList(info, offset, base, calls) ==
  IF offset >= info.size_ \/ info.buffer_[offset + 1] >= Len(RangeListEntries)
    THEN [returned |-> FALSE, calls |-> calls]
  ELSE
    LET entry == RangeListEntries[info.buffer_[offset + 1] + 1]
        first == ReadUnsignedLEB128(info.buffer_, offset + 1)
        second == ReadUnsignedLEB128(info.buffer_, offset + 1 + first.len)
        address1 == ReadFourBytes(SubSeq(info.buffer_, offset + 2, offset + 5), "kBigEndian")
        address2 == ReadFourBytes(SubSeq(info.buffer_, offset + 6, offset + 9), "kBigEndian")
        length == ReadUnsignedLEB128(info.buffer_, offset + 5)
    IN  IF entry = "DW_RLE_end_of_list"
          THEN [returned |-> TRUE, calls |-> Append(calls, [call |-> "Finish"])]
        ELSE IF entry = "DW_RLE_base_addressx"
          THEN ReadDebugRngList(info, offset + 1 + first.len, AddrAt(info, first.value), calls)
        ELSE IF entry = "DW_RLE_startx_endx"
          THEN ReadDebugRngList(info, offset + 1 + first.len + second.len, base,
                 Append(calls, AddRange(AddrAt(info, first.value), AddrAt(info, second.value))))
        ELSE IF entry = "DW_RLE_startx_length"
          THEN ReadDebugRngList(info, offset + 1 + first.len + second.len, base,
                 Append(calls, AddRange(AddrAt(info, first.value),
                                        AddrAt(info, first.value) + second.value)))
        ELSE IF entry = "DW_RLE_offset_pair"
          THEN ReadDebugRngList(info, offset + 1 + first.len + second.len, base,
                 Append(calls, AddRange(base + first.value, base + second.value)))
        ELSE IF entry = "DW_RLE_base_address"
          THEN ReadDebugRngList(info, offset + 5, address1, calls)
        ELSE IF entry = "DW_RLE_start_end"
          THEN ReadDebugRngList(info, offset + 9, base, Append(calls, AddRange(address1, address2)))
        ELSE ReadDebugRngList(info, offset + 5 + length.len, base,
                 Append(calls, AddRange(address1, address1 + length.value)))

\* The handler is told to finish although nothing was read.
FailedAndFinished == [returned |-> FALSE, calls |-> <<[call |-> "Finish"]>>]

\* What ReadRanges answers to a value out of bounds: false, the handler not
\* called.
BoundsFailure == [returned |-> FALSE, calls |-> <<>>]

\* The offset entry count of the unit whose offset entries begin at
\* ranges_base_: the four bytes before them.
OffsetEntryCount(info) ==
  ReadFourBytes(SubSeq(info.buffer_, info.ranges_base_ - 3, info.ranges_base_), "kBigEndian")

\* RangeListReader::ReadRanges(form, data): what it returns and the calls the
\* handler gets.  An offset at or past the end of the section and an index
\* at or past the offset entry count fail before anything is read.
ReadRangesOf(info, form, data) ==
  IF form = "DW_FORM_sec_offset"
    THEN IF data >= info.size_ THEN BoundsFailure
         ELSE IF info.version_ <= 4
           THEN ReadDebugRanges(info.buffer_, data, info.base_address_, <<>>)
           ELSE ReadDebugRngList(info, data, info.base_address_, <<>>)
  ELSE IF form = "DW_FORM_rnglistx"
    THEN IF info.version_ <= 4 \/ data >= OffsetEntryCount(info)
           THEN BoundsFailure
           ELSE ReadDebugRngList(info,
                  info.ranges_base_
                    + ReadOffset(SubSeq(info.buffer_, info.ranges_base_ + 4 * data + 1,
                                        info.ranges_base_ + 4 * data + 4), "kBigEndian"),
                  info.base_address_, <<>>)
  ELSE [returned |-> FALSE, calls |-> <<>>]

\* The values the tests hand to ReadRanges for a unit: the offsets of its
\* lists and the size of the section, or the indices up to one past the
\* offset entry count.
RangeValues(info, form) ==
  IF form = "DW_FORM_rnglistx" THEN 0..3
  ELSE IF info.version_ <= 4 THEN {Len(PaddingOffset), info.size_, info.size_ + 1}
  ELSE {12, Len(PlainUnit(8)) + 12, info.size_, info.size_ + 1}

\* The forms the tests read ranges with for a unit.
RangeForms(info) ==
  IF info.version_ <= 4 \/ info.ranges_base_ = 0 THEN {"DW_FORM_sec_offset"}
  ELSE {"DW_FORM_rnglistx"}

\* The test has built its sections and its reader.
RangeInit ==
  /\ cu_info \in Dwarf4Units \cup Dwarf5Units
  /\ range_handler_calls = <<>>
  /\ read_ranges = <<>>

\* range_list_reader.ReadRanges(form, data)
ReadRanges ==
  \E form \in RangeForms(cu_info) :
    \E data \in RangeValues(cu_info, form) :
      LET r == ReadRangesOf(cu_info, form, data)
      IN  /\ Len(read_ranges) < MaxReads
          /\ range_handler_calls' = range_handler_calls \o r.calls
          /\ read_ranges' = Append(read_ranges, [form |-> form, data |-> data,
                                                 returned |-> r.returned, calls |-> r.calls])
          /\ UNCHANGED <<cu_info, procVars, reasonVars, moduleVars, dwarfVars,
                         walkVars, canonicalVars>>

InitRange ==
  ProcessIdle /\ ReasonIdle /\ ModuleIdle /\ DwarfIdle /\ RangeInit /\ WalkIdle /\ CanonicalIdle

NextRange == ReadRanges

SpecRange == InitRange /\ [][NextRange]_vars

\* The pairs of the DWARF 4 list of the unit, in section order, the
\* terminator left out.
SourcePairs ==
  LET words == (Len(cu_info.buffer_) - Len(PaddingOffset)) \div 4
      word(i) == ReadFourBytes(SubSeq(cu_info.buffer_, Len(PaddingOffset) + 4 * i - 3,
                                      Len(PaddingOffset) + 4 * i), "kBigEndian")
  IN  [i \in 1..(words \div 2 - 1) |-> <<word(2 * i - 1), word(2 * i)>>]

\* The base address in force at the i-th pair: the v of the last (MAX, v)
\* pair before it, or the base address of the compilation unit.
BaseAt(pairs, i) ==
  LET selectors == {j \in 1..(i - 1) : pairs[j][1] = -1}
  IN  IF selectors = {} THEN cu_info.base_address_
      ELSE pairs[CHOOSE j \in selectors : \A k \in selectors : k <= j][2]

\* The ranges the pairs stand for, in section order.
RangesOf(pairs) ==
  LET kept == SelectSeq([i \in DOMAIN pairs |-> i], LAMBDA i : pairs[i][1] # -1)
  IN  [n \in DOMAIN kept |->
        AddRange(BaseAt(pairs, kept[n]) + pairs[kept[n]][1],
                 BaseAt(pairs, kept[n]) + pairs[kept[n]][2])]

\* The reads of the DWARF 4 list from its offset in .debug_ranges.
ListReads ==
  {i \in DOMAIN read_ranges :
     /\ cu_info.version_ = 4
     /\ read_ranges[i].form = "DW_FORM_sec_offset"
     /\ read_ranges[i].data = Len(PaddingOffset)}

\* C23: reading a DWARF 4 range list succeeds and gives the handler, in
\* section order, AddRange(base + a, base + b) for every pair (a, b) before
\* the terminator that is not a base selector, base being the base address
\* of the compilation unit until a (MAX, v) pair makes it v; nothing is
\* emitted for the selectors and the terminator, and Finish() is called
\* once, after the last AddRange.
C23_Dwarf4RangeList ==
  \A i \in ListReads :
    /\ read_ranges[i].returned
    /\ read_ranges[i].calls = RangesOf(SourcePairs) \o <<[call |-> "Finish"]>>

\* The list (1, 2), (MAX, 3), (0, 1) has been read with base address 1: the
\* second range is based at 3 and lies before nothing that follows.
C23_Witness ==
  /\ ListReads # {}
  /\ SourcePairs = <<(<<1, 2>>), (<<-1, 3>>), (<<0, 1>>)>>
  /\ range_handler_calls = <<AddRange(2, 3), AddRange(3, 4), [call |-> "Finish"]>>

\* The offset entry count in the header of the first unit of
\* .debug_rnglists; the second unit of the tests has the same.
HeaderOffsetEntryCount == ReadFourBytes(SubSeq(cu_info.buffer_, 9, 12), "kBigEndian")

\* The read was of an index that is not below the offset entry count, or of
\* an offset at or past the end of the section.
OutOfBounds(read) ==
  \/ read.form = "DW_FORM_rnglistx" /\ read.data >= HeaderOffsetEntryCount
  \/ read.form = "DW_FORM_sec_offset" /\ read.data >= Len(cu_info.buffer_)

\* C24: ReadRanges returns false and calls neither AddRange nor Finish for
\* an index that is not below the offset entry count of the unit and for an
\* offset at or past the end of the range list section, and every read of
\* a value in bounds still succeeds, after such a failure too, ending in
\* Finish.
C24_BoundsFailures ==
  \A i \in DOMAIN read_ranges :
    IF OutOfBounds(read_ranges[i])
      THEN ~read_ranges[i].returned /\ read_ranges[i].calls = <<>>
      ELSE /\ read_ranges[i].returned
           /\ read_ranges[i].calls # <<>>
           /\ read_ranges[i].calls[Len(read_ranges[i].calls)].call = "Finish"

\* An index out of bounds and then an index in bounds have been read, or an
\* offset at the end of the section and then the offset of a list: the
\* handler has only the calls of the second read.
C24_Witness ==
  /\ cu_info.version_ = 5
  /\ Len(read_ranges) = 2
  /\ OutOfBounds(read_ranges[1])
  /\ read_ranges[2].returned
  /\ range_handler_calls = read_ranges[2].calls
  /\ Len(range_handler_calls) = 4

\* ---------------------------------------------------------------------
\* Stackwalker::Walk with StackwalkerARM64: the frames of one call stack.

\* The highest stack pointer a frame is recovered with.
MaxSp == 5

\* The frame limits the walker is configured with.
FrameLimits == {2, 4}

\* The instruction pointers recovered: zero, one in the module of the
\* process and one outside every module.
InstructionPointers == {0, 20, 36}

\* modules_->GetModuleForAddress(address) finds a module: the process has
\* one, at [16, 32).
InModule(address) == address \in 16..31

\* No frame has been recovered.
NoFrame == [sp |-> -1, pc |-> -1]

\* The stack pointer of the caller is not below the one of the callee.
SpNotBelow(callee, caller) == caller.sp >= callee.sp

\* The stack pointer of the caller strictly exceeds the one of the callee.
SpExceeds(callee, caller) == caller.sp > callee.sp

\* The recovered instruction pointer ends the walk: it is outside every
\* module, zero included, and the stack may not be scanned.
IpEndsWalk(caller, stack_scan_allowed) == ~InModule(caller.pc) /\ ~stack_scan_allowed

\* The walker has been made for a context, with its frame limit.
WalkInit ==
  /\ walk_input \in [context_ : [sp : 0..1, pc : InstructionPointers \ {0}],
                     max_frames_ : FrameLimits,
                     recovered : {NoFrame}]
  /\ frames = <<>>
  /\ walk_pc = "GetContextFrame"

\* StackwalkerARM64::GetContextFrame: the innermost frame is the context.
GetContextFrame ==
  /\ walk_pc = "GetContextFrame"
  /\ frames' = <<walk_input.context_>>
  /\ walk_pc' = "GetCallerFrame"
  /\ UNCHANGED <<walk_input, procVars, reasonVars, moduleVars, dwarfVars,
                 rangeVars, canonicalVars>>

\* One turn of the loop of Stackwalker::Walk after a frame was pushed: the
\* walk ends at the frame limit; otherwise GetCallerFrame(stack,
\* stack_scan_allowed) recovers a caller from the stack memory, by CFI,
\* frame pointer or scan, and returns it unless it ends the walk.  Whether
\* an instruction pointer of zero ends the walk when the stack may be
\* scanned is left open.
GetCallerFrame ==
  /\ walk_pc = "GetCallerFrame"
  /\ IF Len(frames) >= walk_input.max_frames_
       THEN /\ walk_pc' = "done"
            /\ walk_input' = [walk_input EXCEPT !.recovered = NoFrame]
            /\ UNCHANGED frames
       ELSE \E stack_scan_allowed \in BOOLEAN :
              \E caller \in [sp : 0..MaxSp, pc : InstructionPointers] \cup {NoFrame} :
                /\ walk_input' = [walk_input EXCEPT !.recovered = caller]
                /\ \/ /\ \/ caller = NoFrame
                         \/ IpEndsWalk(caller, stack_scan_allowed)
                         \/ caller.pc = 0
                         \/ ~SpExceeds(frames[Len(frames)], caller)
                      /\ walk_pc' = "done"
                      /\ UNCHANGED frames
                   \/ /\ caller # NoFrame
                      /\ ~IpEndsWalk(caller, stack_scan_allowed)
                      /\ SpExceeds(frames[Len(frames)], caller)
                      /\ frames' = Append(frames, caller)
                      /\ UNCHANGED walk_pc
  /\ UNCHANGED <<procVars, reasonVars, moduleVars, dwarfVars, rangeVars, canonicalVars>>

InitWalk ==
  ProcessIdle /\ ReasonIdle /\ ModuleIdle /\ DwarfIdle /\ RangeIdle /\ WalkInit /\ CanonicalIdle

NextWalk == GetContextFrame \/ GetCallerFrame

\* Walk runs its loop to the end: it is not suspended between two frames.
SpecWalk == InitWalk /\ [][NextWalk]_vars /\ WF_vars(NextWalk)

\* The stack pointers strictly increase from the context frame outwards and
\* the frames are no more than the limit.
RisingStack ==
  /\ \A i \in 2..Len(frames) : frames[i].sp > frames[i - 1].sp
  /\ walk_pc # "idle" => Len(frames) <= walk_input.max_frames_

\* A step of the walk that finds the limit reached, or recovers a caller
\* whose stack pointer does not strictly exceed the one of its callee or
\* whose instruction pointer is outside every module, appends nothing and is
\* the last one.
EndsAtOnce ==
  (/\ walk_pc = "GetCallerFrame"
   /\ \/ Len(frames) >= walk_input.max_frames_
      \/ walk_input'.recovered = NoFrame
      \/ walk_input'.recovered.sp <= frames[Len(frames)].sp)
  => walk_pc' = "done" /\ frames' = frames

LimitInForce ==
  /\ pc \in {"Threads", "Done"}
  /\ loc.found_requesting_thread
  /\ max_thread_count_ >= 0

\* max(requesting_thread + 1, max_thread_count)
ThreadLimit == Max(process_state.requesting_thread_ + 1, max_thread_count_)

\* Once the requesting thread is found with a limit set, the loop ends at
\* the limit, threads_ holds no more call stacks than the limit and holds
\* the one of the requesting thread; until it is found the loop runs to the
\* end of the thread list.
LimitKept ==
  /\ LimitInForce =>
       /\ loc.thread_count = Min(Len(dump.threads), ThreadLimit)
       /\ Len(process_state.threads_) <= ThreadLimit
       /\ process_state.requesting_thread_ \in 0..(Len(process_state.threads_) - 1)
       /\ process_state.threads_[process_state.requesting_thread_ + 1].tid
            = loc.requesting_thread_id
  /\ (pc = "Threads" /\ ~loc.found_requesting_thread) =>
       loc.thread_count = Len(dump.threads)

\* With the limit in force and the thread index at it or past it, no
\* further thread is looked at.
StopsAtLimit ==
  (LimitInForce /\ loc.thread_index >= ThreadLimit) =>
    /\ process_state'.threads_ = process_state.threads_
    /\ loc'.thread_index = loc.thread_index

\* C26: when max_thread_count >= 0 and the requesting thread is encountered,
\* Process stops iterating once the thread index reaches
\* max(requesting_thread + 1, max_thread_count): threads_ never holds more
\* call stacks than that and always holds the one of the requesting thread,
\* with max_thread_count 0 too; as long as no requesting thread has been
\* encountered the limit does not cut the loop.
C26_MaxThreadCount == []LimitKept /\ [][StopsAtLimit]_vars

\* With max_thread_count 0 Process went through a list of two threads whose
\* first is the requesting thread: threads_ holds its call stack alone.
C26_Witness ==
  /\ pc = "Done"
  /\ result = "PROCESS_OK"
  /\ max_thread_count_ = 0
  /\ Len(dump.threads) = 2
  /\ loc.found_requesting_thread
  /\ dump.threads[1].thread_id = loc.requesting_thread_id
  /\ dump.threads[2].ok
  /\ loc.thread_index = 1
  /\ Len(process_state.threads_) = 1
  /\ process_state.requesting_thread_ = 0

\* The threads of the list before position k that Process keeps.
KeptBefore(k) == {j \in 1..(k - 1) : ~WriterThread(dump.threads[j])}

\* C29: at every return of Process requesting_thread_ is -1 or an index
\* into threads_ whose call stack has the requesting thread id for tid; it
\* is the number of threads kept before the requesting thread, so a
\* dump-writer thread skipped before it shifts it down from its position
\* in the thread list.
C29_RequestingThreadIndex ==
  pc = "Done" =>
    \/ process_state.requesting_thread_ = -1 /\ ~loc.found_requesting_thread
    \/ /\ loc.found_requesting_thread
       /\ process_state.requesting_thread_ \in 0..(Len(process_state.threads_) - 1)
       /\ process_state.threads_[process_state.requesting_thread_ + 1].tid
            = loc.requesting_thread_id
       /\ process_state.requesting_thread_ = Cardinality(KeptBefore(FirstRequesting))

\* Process returned from a list whose first thread is the dump-writer
\* thread and whose second is the requesting thread: requesting_thread_ is
\* 0, not 1.
C29_Witness ==
  /\ pc = "Done"
  /\ Len(dump.threads) = 2
  /\ WriterThread(dump.threads[1])
  /\ loc.found_requesting_thread
  /\ RequestingPositions = {2}
  /\ process_state.requesting_thread_ = 0
  /\ process_state.threads_[1].tid = loc.requesting_thread_id

\* Process has read the streams of a dump with a thread list.
StreamsRead == dump.header /\ dump.thread_list /\ pc \in {"ThreadNames", "Threads", "Done"}

\* C30: with an exception stream the requesting thread is the one of the
\* exception record: its thread id replaces the one of BreakpadInfo, and
\* when it cannot be read no thread is the requesting thread, whatever
\* BreakpadInfo said: no call stack is walked from the exception context,
\* no duplicate is reported, the loop is not cut and requesting_thread_
\* stays -1.  Without exception stream the id of BreakpadInfo is used.
C30_ExceptionDecides ==
  StreamsRead =>
    IF dump.exception.present
      THEN /\ loc.has_requesting_thread = dump.exception.thread_id_ok
           /\ dump.exception.thread_id_ok =>
                loc.requesting_thread_id = dump.exception.thread_id
           /\ ~dump.exception.thread_id_ok =>
                /\ ~loc.found_requesting_thread
                /\ process_state.requesting_thread_ = -1
                /\ \A j \in 1..Len(process_state.threads_) :
                     process_state.threads_[j].context # "exception"
                /\ result # "PROCESS_ERROR_DUPLICATE_REQUESTING_THREADS"
                /\ pc # "ThreadNames" => loc.thread_count = Len(dump.threads)
      ELSE /\ loc.has_requesting_thread
                = (dump.breakpad_info.present /\ dump.breakpad_info.has_requesting_thread)
           /\ loc.has_requesting_thread =>
                loc.requesting_thread_id = dump.breakpad_info.requesting_thread_id

\* BreakpadInfo named thread 2, the exception's thread id could not be read,
\* max_thread_count is 0 and the list holds thread 2 twice: both were walked
\* from their own context and Process returned PROCESS_OK.
C30_Witness ==
  /\ pc = "Done"
  /\ result = "PROCESS_OK"
  /\ max_thread_count_ = 0
  /\ dump.exception.present /\ ~dump.exception.thread_id_ok
  /\ dump.breakpad_info.has_requesting_thread
  /\ dump.breakpad_info.requesting_thread_id = 2
  /\ Len(process_state.threads_) = 2
  /\ \A j \in 1..2 : /\ process_state.threads_[j].tid = 2
                     /\ process_state.threads_[j].context = "thread"

\* ---------------------------------------------------------------------
\* IsCanonicalAddress (lines 800-808).

\* The uint32_t with the given bits, as TLC's integer of the same bits.
AsUInt32(unsigned_high, rest) ==
  (IF unsigned_high >= 65536 THEN unsigned_high - 131072 ELSE unsigned_high) * 32768 + rest

\* Bits 55 to 63 all clear, all set, all clear but one and all set but one.
HighNine == {0, 511} \cup {2 ^ k : k \in 0..8} \cup {511 - 2 ^ k : k \in 0..8}

\* The addresses IsCanonicalAddress is called with: every value of the bits
\* 47 to 54 under each of the values of the bits 55 to 63, over bits 0 to
\* 46 all clear or all set.
CanonicalInputs ==
  {UInt64(AsUInt32(high * 256 + low, IF ones THEN 32767 ELSE 0), IF ones THEN -1 ELSE 0) :
     high \in HighNine, low \in 0..255, ones \in BOOLEAN}

\* (address >> shift) & 1
ShiftedBit(address, shift) ==
  IF shift = 63 THEN (IF address[1] < 0 THEN 1 ELSE 0)
  ELSE IF shift >= 32 THEN (address[1] \div (2 ^ (shift - 32))) % 2
  ELSE IF shift = 31 THEN (IF address[2] < 0 THEN 1 ELSE 0)
  ELSE (address[2] \div (2 ^ shift)) % 2

\* Lines 802-806: the loop from the given shift on, up to shift 62.
RECURSIVE SignBitRepeated(_, _, _)
SignBitRepeated(address, sign_bit, shift) ==
  IF ~(shift < 63) THEN TRUE
  ELSE IF sign_bit # ShiftedBit(address, shift) THEN FALSE
  ELSE SignBitRepeated(address, sign_bit, shift + 1)

\* Lines 800-808.
IsCanonicalAddress(address) ==
  LET sign_bit == ShiftedBit(address, 63)
  IN  SignBitRepeated(address, sign_bit, 48)

\* An address is about to be judged.
CanonicalInit ==
  /\ canonical_address \in CanonicalInputs
  /\ canonical_returned = "NOT CALLED"

\* Lines 857 and 860: IsCanonicalAddress(read_address) and
\* IsCanonicalAddress(write_address).
CallIsCanonicalAddress ==
  /\ canonical_returned = "NOT CALLED"
  /\ canonical_returned' = IF IsCanonicalAddress(canonical_address) THEN "true" ELSE "false"
  /\ UNCHANGED <<canonical_address, procVars, reasonVars, moduleVars, dwarfVars,
                 rangeVars, walkVars>>

InitCanonical ==
  ProcessIdle /\ ReasonIdle /\ ModuleIdle /\ DwarfIdle /\ RangeIdle /\ WalkIdle /\ CanonicalInit

NextCanonical == CallIsCanonicalAddress

SpecCanonical == InitCanonical /\ [][NextCanonical]_vars

\* Bits 47 to 63 of the address are all equal.
HighSeventeenEqual ==
  \A shift \in 47..62 : ShiftedBit(canonical_address, shift) = ShiftedBit(canonical_address, 63)

\* C27: IsCanonicalAddress(a) returns true exactly when bits 47 to 63 of a
\* are all equal.
C27_HighSeventeenBits ==
  canonical_returned # "NOT CALLED" =>
    (canonical_returned = "true" <=> HighSeventeenEqual)

\* What the code does: it returns true exactly when bits 48 to 63 are all
\* equal, whatever bit 47 is.
C27_HighSixteenBits ==
  canonical_returned # "NOT CALLED" =>
    (canonical_returned = "true"
       <=> \A shift \in 48..62 :
             ShiftedBit(canonical_address, shift) = ShiftedBit(canonical_address, 63))

\* 0x0000800000000000, with bit 47 alone set, has been judged canonical.
C27_Bit47Unchecked ==
  /\ canonical_address = UInt64(32768, 0)
  /\ canonical_returned = "true"

\* ---------------------------------------------------------------------
\* Module: functions at one address under enable_multiple.

\* The AddFunction calls made at the given address, by position.
FunctionCallsAt(address) ==
  {i \in DOMAIN history :
     history[i].op = "AddFunction" /\ history[i].argument.address = address}

\* The first of them.
FirstFunctionCallAt(address) ==
  CHOOSE i \in FunctionCallsAt(address) : \A j \in FunctionCallsAt(address) : i <= j

\* C28: with enable_multiple set, AddFunction returns false for every
\* function at the address of a function already in the module, under
\* another name too; the first function stays the one held, and Write emits
\* it as the single FUNC record of the address, marked m.
C28_SameAddressMultiple ==
  module.enable_multiple_field_ =>
    \A a \in {history[i].argument.address :
                i \in {j \in DOMAIN history : history[j].op = "AddFunction"}} :
      LET first == history[FirstFunctionCallAt(a)]
          later == FunctionCallsAt(a) \ {FirstFunctionCallAt(a)}
      IN  /\ first.returned
          /\ \A i \in later : ~history[i].returned
          /\ \E g \in functions_ :
               /\ {h \in functions_ : h.address = a} = {g}
               /\ g.name = first.argument.name
               /\ g.ranges = first.argument.ranges
               /\ g.is_multiple \/ later = {}
          /\ (history[Len(history)].op = "Write" /\ later # {}) =>
               /\ Cardinality(FuncRecordsAt(contents, a)) = 1
               /\ \A i \in FuncRecordsAt(contents, a) :
                    /\ contents[i].m
                    /\ contents[i].name = first.argument.name
                    /\ contents[i].size = first.argument.ranges[1].size

\* With enable_multiple set _without_form and then _and_void were added at
\* one address with the same ranges: the second call returned false and
\* Write emitted one FUNC m record, of _without_form.
C28_Witness ==
  /\ module.enable_multiple_field_
  /\ Len(history) = 3
  /\ history[1].op = "AddFunction" /\ history[1].returned
  /\ history[1].argument.name = "_without_form"
  /\ history[2].op = "AddFunction" /\ ~history[2].returned
  /\ history[2].argument.name = "_and_void"
  /\ history[2].argument.address = history[1].argument.address
  /\ history[2].argument.ranges = history[1].argument.ranges
  /\ history[3].op = "Write"
  /\ Cardinality(FuncRecordsAt(contents, history[1].argument.address)) = 1
  /\ \A i \in FuncRecordsAt(contents, history[1].argument.address) :
       contents[i].m /\ contents[i].name = "_without_form"

====
